---- MODULE Spec2Model ----
(***************************************************************************)
(* Streaming delivery path of one destination: the persistent queue, the   *)
(* StreamingWorker loop that drains it, Postgres.Insert with its single    *)
(* retry, the fallback and archive loggers, and fallback replay.           *)
(*                                                                         *)
(* Error texts are sequences of words, so that strings.Contains is a real  *)
(* search for a run of words and not an equality of names.                 *)
(* Time is counted in seconds.                                             *)
(***************************************************************************)
EXTENDS Integers, Sequences, FiniteSets, TLC

\* ---------------------------------------------------------------- bounds
\* number of events the router accepts
NumEvents == 2
\* number of Replay calls
MaxReplays == 2
\* number of BigQuery.StoreWithParseFunc calls
MaxStages == 1
\* number of IncrementVersion calls
MaxIncs == 3
\* number of Factory.Create calls
MaxCreates == 2
\* number of Postgres.Insert calls looked at on their own
MaxPgInserts == 2
\* number of ListBucket calls of the batch goroutine
MaxTicks == 2
\* number of events handed to the async logger
MaxLogEvents == 3
\* capacity of the logger channel in the model; the program makes the
\* channel with 20000 places
LogChCap == 2
NumTasks == 2
MaxEnsures == 3
MaxInserts == 3
MaxBulkRows == 3
MaxSeedRows == 1
\* the clock stops at MaxNow; the sink does not fail transiently when the
\* retry time would lie beyond it
MaxNow == 20

\* ------------------------------------------------------ program constants
\* time.Now().Add(20*time.Second)
RetryDelay == 20

EventIds == 1..NumEvents
TokenIds == {"tok"}
NoErr == <<>>

\* --------------------------------------------------------------- errors
ErrSkipObject == <<"skip", "object">>
ErrMapping == <<"error", "mapping", "field">>

\* error texts the table helper (EnsureTable, RefreshTableSchema) returns
EnsureErrs ==
    { <<"dial", "tcp:", "connection", "refused">>,
      <<"relation", "is", "locked">> }

\* error texts the adapter's Insert returns
InsertErrs ==
    { <<"dial", "tcp:", "connection", "refused">>,
      <<"unexpected", "EOF">>,
      <<"write:", "broken", "pipe">>,
      <<"context", "deadline", "exceeded">>,
      <<"read:", "connection", "reset", "by", "peer">>,
      <<"broken", "pipe">>,
      <<"syntax", "error">> }

\* strings.Contains(text, marker) on word sequences
Contains(text, marker) ==
    \E i \in 1..(Len(text) - Len(marker) + 1) :
        SubSeq(text, i, i + Len(marker) - 1) = marker

\* the markers the worker treats as a transient failure
TransientMarkers ==
    { <<"connection", "refused">>,
      <<"EOF">>,
      <<"write:", "broken", "pipe">>,
      <<"context", "deadline", "exceeded">>,
      <<"connection", "reset", "by", "peer">> }

\* variant: the EOF marker is missing
IsTransientNoEOF(err) ==
    \E m \in TransientMarkers \ {<<"EOF">>} : Contains(err, m)

IsTransient(err) == \E m \in TransientMarkers : Contains(err, m)

\* ------------------------------------------------------------- processor
\* shape of a payload as the Processor sees it
Shapes == {"ok", "skip", "badfield", "empty"}

\* schema.Processor.ProcessEvent: error, or header and flattened object
ProcessEvent(fact) ==
    CASE fact.shape = "skip" -> [err |-> ErrSkipObject, fields |-> 0, id |-> fact.id]
      [] fact.shape = "badfield" -> [err |-> ErrMapping, fields |-> 0, id |-> fact.id]
      [] fact.shape = "empty" -> [err |-> NoErr, fields |-> 0, id |-> fact.id]
      [] OTHER -> [err |-> NoErr, fields |-> 1, id |-> fact.id]

\* BatchHeader.Exists
Exists(header) == header.fields > 0

\* events.ExtractEventID
ExtractEventID(obj) == obj.id

\* --------------------------------------------------------- Postgres.Insert
OK == <<"ok">>

\* answers of the table helper and the adapter during one Postgres.Insert,
\* in call order: EnsureTable, adapter.Insert, RefreshTableSchema,
\* EnsureTable, adapter.Insert; a run stops where Insert returns
InsertRuns ==
    { <<e>> : e \in EnsureErrs }
    \cup { <<OK, OK>> }
    \cup { <<OK, e1, e2>> : e1 \in InsertErrs, e2 \in EnsureErrs }
    \cup { <<OK, e1, OK, e2>> : e1 \in InsertErrs, e2 \in EnsureErrs }
    \cup { <<OK, e1, OK, OK, r>> : e1 \in InsertErrs, r \in InsertErrs \cup {OK} }

\* variant: the error of the first adapter.Insert is returned, without retry
PostgresInsertNoRetry(run) ==
    IF run[1] # OK
    THEN [err |-> run[1], stored |-> FALSE, calls |-> 0]
    ELSE IF run[2] = OK
    THEN [err |-> NoErr, stored |-> TRUE, calls |-> 1]
    ELSE [err |-> run[2], stored |-> FALSE, calls |-> 1]

\* Postgres.Insert: the returned error, whether a row was written and the
\* number of adapter.Insert calls
PostgresInsert(run) ==
    IF run[1] # OK
    THEN [err |-> run[1], stored |-> FALSE, calls |-> 0]
    ELSE IF run[2] = OK
    THEN [err |-> NoErr, stored |-> TRUE, calls |-> 1]
    ELSE IF run[3] # OK
    THEN [err |-> run[3], stored |-> FALSE, calls |-> 1]
    ELSE IF run[4] # OK
    THEN [err |-> run[4], stored |-> FALSE, calls |-> 1]
    ELSE IF run[5] = OK
    THEN [err |-> NoErr, stored |-> TRUE, calls |-> 2]
    ELSE [err |-> run[5], stored |-> FALSE, calls |-> 2]

\* ------------------------------------------------- worker loop: the calls
Call(op, err, nb) == [op |-> op, err |-> err, nb |-> nb]

\* variant: the retry time is not looked at
NotDueNever(t, dequeuedTime) == FALSE

\* time.Now().Before(dequeuedTime)
NotDue(t, dequeuedTime) == t < dequeuedTime

\* variant: a retry time that is out of reach
RetryTimeFar(t) == t + 3 * RetryDelay

\* time.Now().Add(20*time.Second)
RetryTime(t) == t + RetryDelay

\* variant: a skipped event is written to fallback as well
OnProcessErrorSkipToFallback(err) ==
    IF err = ErrSkipObject
    THEN << Call("SkipEvents", NoErr, 0),
            Call("Fallback", err, 0),
            Call("cache.Error", err, 0) >>
    ELSE << Call("metrics.Error", NoErr, 0),
            Call("ErrorEvents", NoErr, 0),
            Call("Fallback", err, 0),
            Call("cache.Error", err, 0) >>

\* the branch taken when ProcessEvent returned an error
OnProcessError(err) ==
    IF err = ErrSkipObject
    THEN << Call("SkipEvents", NoErr, 0),
            Call("cache.Error", err, 0) >>
    ELSE << Call("metrics.Error", NoErr, 0),
            Call("ErrorEvents", NoErr, 0),
            Call("Fallback", err, 0),
            Call("cache.Error", err, 0) >>

\* variant: a permanent error is only counted and cached
OnInsertErrorNoFallback(err, t) ==
    (IF IsTransient(err)
     THEN << Call("ConsumeTimed", NoErr, RetryTime(t)) >>
     ELSE << >>)
    \o << Call("ErrorEvents", NoErr, 0),
          Call("cache.Error", err, 0),
          Call("metrics.Error", NoErr, 0) >>

\* variant: a transient error is re-enqueued and written to fallback
OnInsertErrorBoth(err, t) ==
    (IF IsTransient(err)
     THEN << Call("ConsumeTimed", NoErr, RetryTime(t)), Call("Fallback", err, 0) >>
     ELSE << Call("Fallback", err, 0) >>)
    \o << Call("ErrorEvents", NoErr, 0),
          Call("cache.Error", err, 0),
          Call("metrics.Error", NoErr, 0) >>

\* variant: a permanent error is written to fallback twice
OnInsertErrorTwice(err, t) ==
    (IF IsTransient(err)
     THEN << Call("ConsumeTimed", NoErr, RetryTime(t)) >>
     ELSE << Call("Fallback", err, 0), Call("Fallback", err, 0) >>)
    \o << Call("ErrorEvents", NoErr, 0),
          Call("cache.Error", err, 0),
          Call("metrics.Error", NoErr, 0) >>

\* the branch taken when streamingStorage.Insert returned an error
OnInsertError(err, t) ==
    << IF IsTransient(err)
       THEN Call("ConsumeTimed", NoErr, RetryTime(t))
       ELSE Call("Fallback", err, 0),
       Call("ErrorEvents", NoErr, 0),
       Call("cache.Error", err, 0),
       Call("metrics.Error", NoErr, 0) >>

\* variant: the event is archived before the cache is updated
OnInsertSuccessArchiveFirst ==
    << Call("SuccessEvents", NoErr, 0),
       Call("archive", NoErr, 0),
       Call("cache.Succeed", NoErr, 0),
       Call("metrics.Success", NoErr, 0) >>

\* the tail of the loop body after a successful Insert
OnInsertSuccess ==
    << Call("SuccessEvents", NoErr, 0),
       Call("cache.Succeed", NoErr, 0),
       Call("metrics.Success", NoErr, 0),
       Call("archive", NoErr, 0) >>

\* one pass of the loop body on a dequeued record at time t; run holds the
\* answers Postgres.Insert gets if it is called
Body(rec, t, run) ==
    IF NotDue(t, rec.notBefore)
    THEN [outcome |-> "notdue", err |-> NoErr,
          calls |-> << Call("ConsumeTimed", NoErr, rec.notBefore) >>]
    ELSE LET p == ProcessEvent(rec.payload) IN
         IF p.err # NoErr
         THEN [outcome |-> IF p.err = ErrSkipObject THEN "skipped" ELSE "procfallback",
               err |-> p.err,
               calls |-> OnProcessError(p.err)]
         ELSE IF ~Exists(p)
         THEN [outcome |-> "dropped", err |-> NoErr, calls |-> <<>>]
         ELSE LET r == PostgresInsert(run) IN
              IF r.err # NoErr
              THEN [outcome |-> IF IsTransient(r.err) THEN "requeued" ELSE "fallback",
                    err |-> r.err,
                    calls |-> << Call("Insert", r.err, r.calls) >> \o OnInsertError(r.err, t)]
              ELSE [outcome |-> "inserted", err |-> NoErr,
                    calls |-> << Call("Insert", NoErr, r.calls) >> \o OnInsertSuccess]

\* ---------------------------------------------------- folding the calls
RECURSIVE SelectCalls(_, _)
SelectCalls(calls, op) ==
    IF calls = <<>> THEN <<>>
    ELSE (IF Head(calls).op = op THEN <<Head(calls)>> ELSE <<>>)
         \o SelectCalls(Tail(calls), op)

NumCalls(calls, op) == Len(SelectCalls(calls, op))

\* position of the first call of op in calls, 0 when there is none
RECURSIVE IndexOf(_, _)
IndexOf(calls, op) ==
    IF calls = <<>> THEN 0
    ELSE IF Head(calls).op = op THEN 1
    ELSE LET k == IndexOf(Tail(calls), op) IN IF k = 0 THEN 0 ELSE k + 1

\* PersistentQueue.ConsumeTimed for every such call
RECURSIVE Requeued(_, _)
Requeued(cs, rec) ==
    IF cs = <<>> THEN <<>>
    ELSE <<[payload |-> rec.payload, notBefore |-> Head(cs).nb, tokenId |-> rec.tokenId]>>
         \o Requeued(Tail(cs), rec)

\* Postgres.Fallback -> fallbackLogger.ConsumeAny for every such call
RECURSIVE FailedEvents(_, _)
FailedEvents(cs, rec) ==
    IF cs = <<>> THEN <<>>
    ELSE <<[event |-> rec.payload, error |-> Head(cs).err,
            eventId |-> ExtractEventID(rec.payload)]>>
         \o FailedEvents(Tail(cs), rec)

\* archiveLogger.Consume for every such call
RECURSIVE Archived(_, _)
Archived(cs, rec) ==
    IF cs = <<>> THEN <<>>
    ELSE <<rec.payload>> \o Archived(Tail(cs), rec)

\* caching.EventsCache: the last outcome recorded for an event id
RECURSIVE CacheAfter(_, _, _)
CacheAfter(c, calls, id) ==
    IF calls = <<>> THEN c
    ELSE LET h == Head(calls) IN
         CacheAfter(
            IF h.op = "cache.Error" THEN [c EXCEPT ![id] = [status |-> "error", err |-> h.err]]
            ELSE IF h.op = "cache.Succeed" THEN [c EXCEPT ![id] = [status |-> "ok", err |-> NoErr]]
            ELSE c,
            Tail(calls), id)

\* ------------------------------------------------- fallback replay: names
\* file names and paths are sequences of name parts
FallbackDir == <<"/", "var", "/", "fallback", "/">>
DateParts == {"2021-03-01"}
GoodBase == <<"failed.dst=", "pg", "-", "2021-03-01", "T", "10-00-00.log">>
BadBase == <<"events", "-", "2021-03-01", "T", "10-00-00.log">>

\* the arguments Replay is called with
FileNameInputs == { <<>>, GoodBase, FallbackDir \o GoodBase, BadBase }
DestinationInputs == { <<>>, <<"pg">>, <<"nope">>, <<"lazy">> }

\* the destinations the destination service knows: the one of this model,
\* and one whose storage proxy has no storage yet
KnownDestinations == { <<"pg">>, <<"lazy">> }
InitializedDestinations == { <<"pg">> }

\* the base names of the fallback files
Bases == { GoodBase, BadBase }

\* strings.HasPrefix(fileName, "/")
IsAbsolute(name) == Len(name) > 0 /\ name[1] = "/"

\* filepath.Base
Base(name) ==
    LET slashes == {i \in 1..Len(name) : name[i] = "/"}
    IN IF slashes = {} THEN name
       ELSE LET k == CHOOSE i \in slashes : \A j \in slashes : j <= i
            IN SubSeq(name, k + 1, Len(name))

\* path.Join(s.fallbackDir, fileName)
Join(dir, name) == dir \o name

\* destinationIDExtractRegexp.FindStringSubmatch: the leftmost "failed.dst=",
\* then the longest group that is followed by "-", a date and "T"
FindDestinationID(name) ==
    LET starts == {i \in 1..Len(name) : name[i] = "failed.dst="}
        ends(i) == {j \in (i + 1)..(Len(name) - 2) :
                       /\ name[j] = "-"
                       /\ name[j + 1] \in DateParts
                       /\ name[j + 2] = "T"}
        ok == {i \in starts : ends(i) # {}}
    IN IF ok = {} THEN [found |-> FALSE, id |-> <<>>]
       ELSE LET i == CHOOSE x \in ok : \A y \in ok : x <= y
                j == CHOOSE x \in ends(i) : \A y \in ends(i) : y <= x
            IN [found |-> TRUE, id |-> SubSeq(name, i + 1, j - 1)]

\* ------------------------------------------- fallback replay: the storage
\* the tables the rows of a fallback file belong to, and its rows that fail
\* in the Processor
AllTables == {"t1", "t2"}
FileTables(base) == IF base = GoodBase THEN AllTables ELSE {}
FailedRows(base) == IF base = GoodBase THEN 1 ELSE 0

StoreErr == <<"bulk", "insert", "failed">>
ProcessErr == <<"error", "processing", "file">>

\* what the Processor, the table helper and the adapter answer during one
\* StoreWithParseFunc
StoreEnvs ==
    { [procErr |-> TRUE, res |-> [t \in AllTables |-> OK]] }
    \cup { [procErr |-> FALSE, res |-> r] : r \in [AllTables -> {OK, StoreErr}] }

\* variant: the failed events are written to fallback whatever the tables did
StoreWithParseFuncAlwaysFallback(base, alreadyUploadedTables, env) ==
    IF env.procErr
    THEN [err |-> ProcessErr, results |-> << >>, failed |-> 0, fallback |-> FALSE]
    ELSE LET tables == FileTables(base) \ alreadyUploadedTables
             results == [t \in tables |-> IF env.res[t] = OK THEN NoErr ELSE env.res[t]]
         IN [err |-> NoErr, results |-> results, failed |-> FailedRows(base),
             fallback |-> TRUE]

\* variant: the tables already uploaded are stored again
StoreWithParseFuncStoresAll(base, alreadyUploadedTables, env) ==
    IF env.procErr
    THEN [err |-> ProcessErr, results |-> << >>, failed |-> 0, fallback |-> FALSE]
    ELSE LET tables == FileTables(base)
             results == [t \in tables |-> IF env.res[t] = OK THEN NoErr ELSE env.res[t]]
             storeFailedEvents == \A t \in tables : results[t] = NoErr
         IN [err |-> NoErr, results |-> results, failed |-> FailedRows(base),
             fallback |-> storeFailedEvents]

\* Postgres.StoreWithParseFunc: error, result per stored table, number of
\* failed events and whether they were written to fallback
StoreWithParseFunc(base, alreadyUploadedTables, env) ==
    IF env.procErr
    THEN [err |-> ProcessErr, results |-> << >>, failed |-> 0, fallback |-> FALSE]
    ELSE LET tables == FileTables(base) \ alreadyUploadedTables
             results == [t \in tables |-> IF env.res[t] = OK THEN NoErr ELSE env.res[t]]
             storeFailedEvents == \A t \in tables : results[t] = NoErr
         IN [err |-> NoErr, results |-> results, failed |-> FailedRows(base),
             fallback |-> storeFailedEvents]

\* ---- in-memory coordination service ----

Tasks == 1..NumTasks

\* system and collection names, as sequences of characters
Systems == { <<"a">>, <<"a", "_", "b">> }
Collections == { <<"c">>, <<"b", "_", "c">> }

getIdentifier(system, collection) == system \o <<"_">> \o collection

\* retryCount argument of lockWithRetry
LockRetryCount == 0
TryLockRetryCount == 3
\* retryCount at which a miss is returned as an error
RetryLimit == 3

\* kind, sleeps and attempts are history: which call it is, the
\* time.Sleep calls and the LoadOrStore calls it has made
IdleTask == [pc |-> "idle", kind |-> "none", system |-> <<>>, collection |-> <<>>,
             retryCount |-> 0, sleeps |-> 0, attempts |-> 0]

\* ---- sink table: adapter DDL and Insert, TableHelper ----

Columns == {"email", "name"}
Headers == { {"email"}, {"email", "name"} }
PkConfigs == { {}, {"email"} }
Emails == {"a@x", "b@x"}
Names == {"A", "B"}
Null == "null"

\* the destination and the table of the named lock
DestID == <<"d">>
TableName == <<"u">>

\* a table without columns stands for a table that does not exist
NoTable == [columns |-> {}, pk |-> {}]

\* valuesMap of an event with the fields of header, as a row over Columns
RowOf(header, email, name) ==
    [c \in Columns |-> IF c \notin header THEN Null
                       ELSE IF c = "email" THEN email ELSE name]

GetTableSchema(lv) == IF lv.columns = {} THEN NoTable ELSE lv

Key(row, pk) == [c \in pk |-> row[c]]

WithKey(rs, pk, k) == {i \in 1..Len(rs) : Key(rs[i], pk) = k}

\* ALTER TABLE ... ADD CONSTRAINT ... PRIMARY KEY (...)
createPrimaryKeyInTransaction(lv, rs, table) ==
    IF table.pk = {} THEN [err |-> FALSE, live |-> lv]
    ELSE IF \/ lv.pk # {}
            \/ ~(table.pk \subseteq lv.columns)
            \/ \E i \in 1..Len(rs) : Cardinality(WithKey(rs, table.pk, Key(rs[i], table.pk))) > 1
         THEN [err |-> TRUE, live |-> lv]
         ELSE [err |-> FALSE, live |-> [lv EXCEPT !.pk = table.pk]]

\* ALTER TABLE ... DROP CONSTRAINT ...
deletePrimaryKeyInTransaction(lv) ==
    IF lv.pk = {} THEN [err |-> TRUE, live |-> lv]
    ELSE [err |-> FALSE, live |-> [lv EXCEPT !.pk = {}]]

\* CreateTable: CREATE TABLE with the columns of table, then its primary
\* key, then commit; fault is a statement the server refuses
CreateTable(lv, rs, table, fault) ==
    IF lv.columns # {} \/ table.columns = {} \/ fault
    THEN [err |-> TRUE, live |-> lv]
    ELSE LET pk == createPrimaryKeyInTransaction([columns |-> table.columns, pk |-> {}], rs, table)
         IN IF pk.err THEN [err |-> TRUE, live |-> lv] ELSE pk

\* variant: the DeletePkFields flag of the patch is not looked at
PatchTableSchemaKeepsPk(lv, rs, patch, fault) ==
    IF lv.columns = {} \/ patch.columns \cap lv.columns # {} \/ fault
    THEN [err |-> TRUE, live |-> lv]
    ELSE LET added == [lv EXCEPT !.columns = @ \cup patch.columns]
             pk == createPrimaryKeyInTransaction(added, rs, patch)
         IN IF pk.err THEN [err |-> TRUE, live |-> lv] ELSE pk

\* variant: the transaction is committed without the ADD COLUMN statements
PatchTableSchemaNoColumns(lv, rs, patch, fault) ==
    IF lv.columns = {} \/ fault
    THEN [err |-> TRUE, live |-> lv]
    ELSE LET dropped == IF patch.deletePk THEN deletePrimaryKeyInTransaction(lv)
                        ELSE [err |-> FALSE, live |-> lv]
             pk == createPrimaryKeyInTransaction(dropped.live, rs, patch)
         IN IF dropped.err \/ pk.err THEN [err |-> TRUE, live |-> lv] ELSE pk

\* PatchTableSchema: ADD COLUMN for each column of the patch, drop of the
\* primary key if DeletePkFields, creation of the primary key if PKFields is
\* not empty, commit; any failing statement rolls everything back
PatchTableSchema(lv, rs, patch, fault) ==
    IF lv.columns = {} \/ patch.columns \cap lv.columns # {} \/ fault
    THEN [err |-> TRUE, live |-> lv]
    ELSE LET added == [lv EXCEPT !.columns = @ \cup patch.columns]
             dropped == IF patch.deletePk THEN deletePrimaryKeyInTransaction(added)
                        ELSE [err |-> FALSE, live |-> added]
             pk == createPrimaryKeyInTransaction(dropped.live, rs, patch)
         IN IF dropped.err \/ pk.err THEN [err |-> TRUE, live |-> lv] ELSE pk

\* variant: the plain insert statement whatever the primary key fields
insertQueryPlain(pkFields) == "insert"

\* insertQuery: the insert statement, or merge on conflict when the table
\* has primary key fields
insertQuery(pkFields) == IF pkFields = {} THEN "insert" ELSE "merge"

\* the header columns of the conflicting row are set to the new values
Merged(old, row, header) == [c \in Columns |-> IF c \in header THEN row[c] ELSE old[c]]

\* Insert: one statement for the object, executed outside a transaction
AdapterInsert(lv, rs, table, header, row, fault) ==
    LET query == insertQuery(table.pk)
        k == Key(row, lv.pk)
        conflict == IF lv.pk = {} THEN {} ELSE WithKey(rs, lv.pk, k)
    IN IF fault \/ lv.columns = {} \/ ~(header \subseteq lv.columns)
       THEN [err |-> TRUE, rows |-> rs]
       ELSE IF query = "insert"
       THEN IF conflict # {} THEN [err |-> TRUE, rows |-> rs]
            ELSE [err |-> FALSE, rows |-> Append(rs, row)]
       ELSE IF lv.pk = {} \/ lv.pk # table.pk THEN [err |-> TRUE, rows |-> rs]
            ELSE IF conflict = {} THEN [err |-> FALSE, rows |-> Append(rs, row)]
            ELSE [err |-> FALSE,
                  rows |-> [i \in 1..Len(rs) |->
                               IF i \in conflict THEN Merged(rs[i], row, header) ELSE rs[i]]]

\* MapTableSchema: the header as a table with the primary key fields of the helper
MapTableSchema(header, pk) == [columns |-> header, pk |-> pk]

\* difference of the wanted table from the known one
Diff(db, table) ==
    [columns |-> table.columns \ db.columns,
     pk |-> IF db.pk # table.pk THEN table.pk ELSE {},
     deletePk |-> db.pk # {} /\ db.pk # table.pk]

DiffExists(db, table) == table.columns \ db.columns # {} \/ db.pk # table.pk

IdleEnsure == [pc |-> "idle", header |-> {}, path |-> "none", result |-> NoTable]
NoInsert == [err |-> FALSE, fault |-> FALSE, t |-> 0, row |-> << >>, table |-> NoTable,
             before |-> 0]

\* ---- SQL adapters: BulkInsert and BulkUpdate ----

mysqlValuesLimit == 65535

Adapters == {"Mysql", "ClickHouse"}
BulkOps == {"BulkInsert", "BulkUpdate"}
ObjectKeys == {"k1", "k2"}
\* column counts of the table; a table has at least one column
BulkWidths == {1, 2, 21845, 21846, 32768, 65535}
\* delete conditions: none, or one on the value of the key column
DeleteConditions == {"none"} \cup ObjectKeys

SeqsUpTo(S, n) == UNION { [1..k -> S] : k \in 0..n }
KeysOf(objects) == { objects[i] : i \in 1..Len(objects) }

\* executeInsert of the rows written so far: one statement
Statement(cur, valueArgs, first, placeholdersCounter) ==
    [kind |-> "insert", rows |-> cur, values |-> valueArgs,
     first |-> first, last |-> placeholdersCounter - 1]

RECURSIVE InsertLoopNoReset(_, _, _, _, _, _, _, _)
InsertLoopNoReset(i, n, width, cur, valueArgs, first, placeholdersCounter, out) ==
    IF i > n
    THEN IF valueArgs > 0
         THEN Append(out, Statement(cur, valueArgs, first, placeholdersCounter))
         ELSE out
    ELSE IF valueArgs + width > mysqlValuesLimit
         THEN InsertLoopNoReset(i + 1, n, width, <<i>>, width, placeholdersCounter,
                         placeholdersCounter + width,
                         Append(out, Statement(cur, valueArgs, first, placeholdersCounter)))
         ELSE InsertLoopNoReset(i + 1, n, width, Append(cur, i), valueArgs + width, first,
                         placeholdersCounter + width, out)

\* variant: placeholdersCounter is not set back to 1 after a statement
bulkInsertInTransactionNoReset(n, width) ==
    InsertLoopNoReset(1, n, width, << >>, 0, 1, 1, << >>)

\* the loop over the objects: row i is written after the rows in cur;
\* valueArgs is len(valueArgs), first the placeholder number the statement
\* began with
RECURSIVE InsertLoop(_, _, _, _, _, _, _, _)
InsertLoop(i, n, width, cur, valueArgs, first, placeholdersCounter, out) ==
    IF i > n
    THEN IF valueArgs > 0
         THEN Append(out, Statement(cur, valueArgs, first, placeholdersCounter))
         ELSE out
    ELSE IF valueArgs + width > mysqlValuesLimit
         THEN InsertLoop(i + 1, n, width, <<i>>, width, 1, 1 + width,
                         Append(out, Statement(cur, valueArgs, first, placeholdersCounter)))
         ELSE InsertLoop(i + 1, n, width, Append(cur, i), valueArgs + width, first,
                         placeholdersCounter + width, out)

\* bulkInsertInTransaction: the insert statements for n objects on a table
\* of width columns, in the order they are executed
bulkInsertInTransaction(n, width) ==
    InsertLoop(1, n, width, << >>, 0, 1, 1, << >>)

\* bulkMergeInTransaction: the merge statement is prepared, then executed
\* once per object
bulkMergeInTransaction(n, width) ==
    <<[kind |-> "prepare", rows |-> << >>, values |-> 0, first |-> 1, last |-> 0]>>
    \o [i \in 1..n |-> [kind |-> "merge", rows |-> <<i>>, values |-> width,
                         first |-> 1, last |-> width]]

\* variant: the insert statements whatever the primary key fields
bulkStoreInTransactionPlain(table, n) == bulkInsertInTransaction(n, table.width)

\* bulkStoreInTransaction: insert without primary key fields, merge with
bulkStoreInTransaction(table, n) ==
    IF ~table.pk THEN bulkInsertInTransaction(n, table.width)
    ELSE bulkMergeInTransaction(n, table.width)

\* ClickHouse insertInTransaction: the insert statement is prepared, then
\* executed once per object
insertInTransaction(table, n) ==
    <<[kind |-> "prepare", rows |-> << >>, values |-> 0, first |-> 1, last |-> 0]>>
    \o [i \in 1..n |-> [kind |-> "insert", rows |-> <<i>>, values |-> table.width,
                         first |-> 1, last |-> table.width]]

\* deleteInTransaction, when the delete conditions are not empty
DeleteSteps(op, cond) ==
    IF op = "BulkUpdate" /\ cond # "none"
    THEN <<[kind |-> "delete", rows |-> << >>, values |-> 1, first |-> 1, last |-> 1]>>
    ELSE << >>

Upsert(rs, k) == IF k \in KeysOf(rs) THEN rs ELSE Append(rs, k)

RECURSIVE AppendAll(_, _, _)
AppendAll(rs, objects, idx) ==
    IF idx = << >> THEN rs
    ELSE AppendAll(Append(rs, objects[Head(idx)]), objects, Tail(idx))

\* what one statement does to the rows seen inside the transaction; a plain
\* insert of a key that a primary key table already has is refused
Exec(stmt, tx, table, objects, cond) ==
    IF stmt.kind = "delete"
    THEN [err |-> FALSE, tx |-> SelectSeq(tx, LAMBDA k : k # cond)]
    ELSE IF stmt.kind = "prepare" THEN [err |-> FALSE, tx |-> tx]
    ELSE IF stmt.kind = "merge"
    THEN [err |-> FALSE, tx |-> Upsert(tx, objects[stmt.rows[1]])]
    ELSE LET after == AppendAll(tx, objects, stmt.rows)
         IN IF table.pk /\ Cardinality(KeysOf(after)) < Len(after)
            THEN [err |-> TRUE, tx |-> tx]
            ELSE [err |-> FALSE, tx |-> after]

\* the statements of steps from the i-th on; statement failAt is refused
\* by the server
RECURSIVE RunSteps(_, _, _, _, _, _, _)
RunSteps(steps, i, tx, table, objects, cond, failAt) ==
    IF i > Len(steps) THEN [err |-> FALSE, tx |-> tx, executed |-> Len(steps)]
    ELSE IF i = failAt THEN [err |-> TRUE, tx |-> tx, executed |-> i - 1]
    ELSE LET r == Exec(steps[i], tx, table, objects, cond)
         IN IF r.err THEN [err |-> TRUE, tx |-> tx, executed |-> i - 1]
            ELSE RunSteps(steps, i + 1, r.tx, table, objects, cond, failAt)

\* Transaction.Rollback: nothing the statements did stays
Rollback(rs, tx) == rs

\* Transaction.DirectCommit: what the statements did becomes visible unless
\* the commit itself is refused
DirectCommit(rs, tx, refused) == IF refused THEN rs ELSE tx

BulkResult(err, rs, steps, executed, commits, rollbacks, opened, panic) ==
    [err |-> err, rows |-> rs, steps |-> steps, executed |-> executed,
     commits |-> commits, rollbacks |-> rollbacks, opened |-> opened, panic |-> panic]

\* variant: the error of the store is returned without Rollback
InTransactionNoRollback(rs, steps, table, objects, cond, failAt) ==
    LET r == RunSteps(steps, 1, rs, table, objects, cond, failAt)
    IN IF r.err THEN BulkResult(TRUE, r.tx, steps, r.executed, 0, 0, TRUE, FALSE)
       ELSE IF failAt = Len(steps) + 1
       THEN BulkResult(TRUE, rs, steps, r.executed, 0, 0, TRUE, FALSE)
       ELSE BulkResult(FALSE, r.tx, steps, r.executed, 1, 0, TRUE, FALSE)

\* the body shared by BulkInsert and BulkUpdate once the transaction is
\* open: the statements, Rollback on the first error, DirectCommit otherwise
InTransaction(rs, steps, table, objects, cond, failAt) ==
    LET r == RunSteps(steps, 1, rs, table, objects, cond, failAt)
        refused == failAt = Len(steps) + 1
    IN IF r.err THEN BulkResult(TRUE, Rollback(rs, r.tx), steps, r.executed, 0, 1, TRUE, FALSE)
       ELSE BulkResult(refused, DirectCommit(rs, r.tx, refused), steps, r.executed,
                       IF refused THEN 0 ELSE 1, 0, TRUE, FALSE)

\* Mysql.BulkInsert and Mysql.BulkUpdate
MysqlBulk(op, rs, table, objects, cond, openFails, failAt) ==
    IF openFails THEN BulkResult(TRUE, rs, << >>, 0, 0, 0, FALSE, FALSE)
    ELSE InTransaction(rs, DeleteSteps(op, cond) \o bulkStoreInTransaction(table, Len(objects)),
                       table, objects, cond, failAt)

\* ClickHouse.BulkInsert and ClickHouse.BulkUpdate; BulkInsert goes on with
\* the nil transaction when OpenTx fails
ClickHouseBulk(op, rs, table, objects, cond, openFails, failAt) ==
    IF openFails
    THEN BulkResult(op = "BulkUpdate", rs, << >>, 0, 0, 0, FALSE, op = "BulkInsert")
    ELSE InTransaction(rs, DeleteSteps(op, cond) \o insertInTransaction(table, Len(objects)),
                       [table EXCEPT !.pk = FALSE], objects, cond, failAt)

NoBulkTable == [width |-> 0, pk |-> FALSE]
FailAts == 0..(MaxBulkRows + 3)

NoBulk == [adapter |-> "none", op |-> "none",
           objects |-> << >>, cond |-> "none", openFails |-> FALSE, failAt |-> 0,
           before |-> << >>,
           res |-> BulkResult(FALSE, << >>, << >>, 0, 0, 0, FALSE, FALSE)]

\* ---- BigQuery: batch goroutine ----

\* file keys in the bucket; extractDataFromFileName fails on "x"
FileKeys == {"f1", "f2", "x"}
WellFormedKeys == {"f1", "f2"}

\* the orders ListBucket can return a set of keys in
Orders(S) ==
    { q \in UNION { [1..n -> S] : n \in {Cardinality(S)} } :
        \A i, j \in 1..Len(q) : i # j => q[i] # q[j] }

\* variant: the object is deleted before it is copied
FileStepDeleteFirst(b, done, fileKey, copyOk, deleteOk) ==
    IF fileKey \notin WellFormedKeys
    THEN [bucket |-> b, copies |-> done, copyCalled |-> FALSE]
    ELSE IF copyOk
         THEN [bucket |-> b \ {fileKey},
               copies |-> [done EXCEPT ![fileKey] = @ + 1], copyCalled |-> TRUE]
         ELSE [bucket |-> b \ {fileKey}, copies |-> done, copyCalled |-> TRUE]

\* the body of the loop over the file keys: extractDataFromFileName, Copy,
\* DeleteObject
FileStep(b, done, fileKey, copyOk, deleteOk) ==
    IF fileKey \notin WellFormedKeys
    THEN [bucket |-> b, copies |-> done, copyCalled |-> FALSE]
    ELSE IF ~copyOk
         THEN [bucket |-> b, copies |-> done, copyCalled |-> TRUE]
         ELSE [bucket |-> IF deleteOk THEN b \ {fileKey} ELSE b,
               copies |-> [done EXCEPT ![fileKey] = @ + 1], copyCalled |-> TRUE]

\* ---- AsyncLogger ----

LogEvents == 1..MaxLogEvents

\* an event on the channel: its number in the order of the sends, and whether
\* json.Marshal accepts it
LogEvent(id, ok) == [id |-> id, ok |-> ok]
NoLogEvent == LogEvent(0, TRUE)

\* json.Marshal of the event, then the line feed of buf.Write
Marshal(ev) == << "{", ev.id, "}" >>
LogLine(ev) == Marshal(ev) \o << "\n" >>

\* ---- Factory.Create ----

BatchMode == "batch"
StreamMode == "stream"

\* the destination types of the switch
DestinationTypes ==
    {"RedshiftType", "BigQueryType", "PostgresType", "ClickHouseType", "S3Type",
     "SnowflakeType", "GoogleAnalyticsType", "FacebookType"}

\* the names, types and modes Create is called with
NameInputs == {"pg", "PostgresType"}
TypeInputs == {"", "PostgresType", "BigQueryType", "mongo"}
ModeInputs == {"", "batch", "stream", "sync"}

\* the step of Create that returns an error of its own, if any
CreateFaults == {"none", "enrichment", "mappings", "fieldMapper", "processor", "queue"}

CreateResult(err, proxy, queue, opened, closedQueue) ==
    [err |-> err, proxy |-> proxy, queue |-> queue, opened |-> opened,
     closedQueue |-> closedQueue]

\* variant: the queue is left open when the type is unknown
CreateLeavesQueue(name, type, mode, fault) ==
    LET t == IF type = "" THEN name ELSE type
        m == IF mode = "" THEN BatchMode ELSE mode
    IN IF m # BatchMode /\ m # StreamMode
       THEN CreateResult("unknown mode", "nil", FALSE, FALSE, FALSE)
       ELSE IF fault \in {"enrichment", "mappings", "fieldMapper", "processor"}
       THEN CreateResult(fault, "nil", FALSE, FALSE, FALSE)
       ELSE IF m = StreamMode /\ fault = "queue"
       THEN CreateResult("queue", "nil", FALSE, FALSE, FALSE)
       ELSE IF t \in DestinationTypes
       THEN CreateResult("none", t, m = StreamMode, m = StreamMode, FALSE)
       ELSE CreateResult("unknown type", "nil", FALSE, m = StreamMode, FALSE)

\* FactoryImpl.Create: the error, the type of the storage behind the proxy,
\* whether a queue is returned, was opened, and was closed again
Create(name, type, mode, fault) ==
    LET t == IF type = "" THEN name ELSE type
        m == IF mode = "" THEN BatchMode ELSE mode
    IN IF m # BatchMode /\ m # StreamMode
       THEN CreateResult("unknown mode", "nil", FALSE, FALSE, FALSE)
       ELSE IF fault \in {"enrichment", "mappings", "fieldMapper", "processor"}
       THEN CreateResult(fault, "nil", FALSE, FALSE, FALSE)
       ELSE IF m = StreamMode /\ fault = "queue"
       THEN CreateResult("queue", "nil", FALSE, FALSE, FALSE)
       ELSE IF t \in DestinationTypes
       THEN CreateResult("none", t, m = StreamMode, m = StreamMode, FALSE)
       ELSE CreateResult("unknown type", "nil", FALSE, m = StreamMode, m = StreamMode)

NoCreate == [name |-> "", type |-> "", mode |-> "", fault |-> "none",
             res |-> CreateResult("none", "nil", FALSE, FALSE, FALSE)]

\* ---- BigQuery.StoreWithParseFunc ----

\* the object a table's rows of the file are uploaded as
KeyOfTable(t) == IF t = "t1" THEN "f1" ELSE "f2"

\* what the Processor, the table helper, ApplyDBTyping and UploadBytes answer
\* during one call, and the order the tables come in
StageEnvs ==
    [procErr : BOOLEAN, order : Orders(AllTables), ensure : [AllTables -> BOOLEAN],
     typing : [AllTables -> BOOLEAN], upload : [AllTables -> BOOLEAN]]

\* the loop over EnsureTable and ApplyDBTyping: TRUE when it got through
RECURSIVE EnsureLoop(_, _)
EnsureLoop(order, env) ==
    IF order = << >> THEN TRUE
    ELSE env.ensure[Head(order)] /\ env.typing[Head(order)] /\ EnsureLoop(Tail(order), env)

\* the loop over UploadBytes: it returns on the first error
RECURSIVE UploadLoop(_, _, _)
UploadLoop(order, env, done) ==
    IF order = << >> THEN [err |-> FALSE, uploaded |-> done]
    ELSE IF ~env.upload[Head(order)] THEN [err |-> TRUE, uploaded |-> done]
    ELSE UploadLoop(Tail(order), env, done \cup {Head(order)})

\* BigQuery.StoreWithParseFunc: the error, the tables whose objects were
\* uploaded, and whether the failed events were written to fallback
BigQueryStoreWithParseFunc(env) ==
    IF env.procErr
    THEN [err |-> "process", uploaded |-> {}, fallback |-> FALSE]
    ELSE IF ~EnsureLoop(env.order, env)
    THEN [err |-> "ensure", uploaded |-> {}, fallback |-> FALSE]
    ELSE LET u == UploadLoop(env.order, env, {})
         IN IF u.err
            THEN [err |-> "upload", uploaded |-> u.uploaded, fallback |-> FALSE]
            ELSE [err |-> "none", uploaded |-> u.uploaded, fallback |-> TRUE]

VARIABLES
    staged,         \* Postgres.staged
    closed,         \* StreamingWorker.closed
    pc,             \* position of the worker goroutine
    queue,          \* PersistentQueue content
    queueClosed,    \* PersistentQueue was closed
    now,            \* wall clock
    accepted,       \* event ids the router has enqueued
    sink,           \* rows in the destination table, by event id
    fallbackCh,     \* FailedEvents handed to the fallback logger
    archiveCh,      \* events handed to the archive logger
    archiveClosed,  \* archive logger was closed
    cache,          \* events cache, per event id
    counters,       \* counters.SkipEvents / ErrorEvents / SuccessEvents
    last,           \* outcome, event id and calls of the last pass
    hist,           \* per event id, the outcomes of its due passes
    afterClose,     \* passes started on an event after Close
    locks,          \* fallback Service.locks: file names being replayed
    rp,             \* the Replay call in progress
    fsFiles,        \* paths of the fallback files on disk
    statuses,       \* status manager: per fallback file and table
    loads,          \* per table, the BulkInserts of the file's rows
    fileCache,      \* events cache, per table of the file and for its failed rows
    replayCount,    \* Replay calls so far
    lastReplay,     \* what the last Replay call returned
    lastStore,      \* the last StoreWithParseFunc call of Replay and what followed it
    imsLocks,       \* InMemoryService.locks: the identifiers stored in the map
    task,           \* per task, its call into the coordination service
    live,           \* the table in the sink: its columns and primary key
    rows,           \* the rows of the table in the sink
    thCache,        \* TableHelper: the cached table
    pkFields,       \* TableHelper: the configured primary key fields
    ens,            \* per task, its EnsureTable call
    ddlLog,         \* CreateTable and PatchTableSchema calls made, in order
    ensureCalls,    \* EnsureTable calls so far
    insertCalls,    \* Insert calls so far
    lastInsert,     \* the last Insert call and what it returned
    bulkTable,      \* the table of the bulk calls: column count, primary key or not
    bulkRows,       \* its rows, by the value of the key column
    lastBulk,       \* the last BulkInsert or BulkUpdate call and what it did
    bucket,         \* BigQuery: file keys in the cloud storage bucket
    bqClosed,       \* BigQuery.closed
    bqAdapterClosed,\* BigQuery: gcsAdapter and bqAdapter were closed
    bqPc,           \* position of the batch goroutine
    tickFiles,      \* file keys of the current tick still to be handled
    listed,         \* file keys ListBucket returned in the current tick
    attempted,      \* file keys Copy was called with in the current tick
    copies,         \* per file key, the Copy calls that loaded its rows
    ticks,          \* ListBucket calls so far
    copyOnClosed,   \* Copy was called after bqAdapter.Close
    logCh,          \* AsyncLogger.logCh
    alClosed,       \* AsyncLogger.closed
    alPc,           \* position of the logger goroutine
    alEvent,        \* the event the logger goroutine has received
    writerOut,      \* lines written to AsyncLogger.writer
    writerClosed,   \* AsyncLogger.writer was closed
    consumed,       \* events Consume and ConsumeAny have sent, in order
    dropped,        \* events the logger goroutine gave up after an error
    pendingAtClose, \* events sent but neither written nor given up when Close ran
    adapterClosed,  \* Postgres.adapter was closed
    pgInsert,       \* the last Postgres.Insert call looked at on its own
    pgInserts,      \* the number of such calls
    lastCreate,     \* the last Factory.Create call and what it returned
    creates,        \* Factory.Create calls so far
    openQueues,     \* persistent queues opened and neither closed nor returned
    lastStage,      \* the last BigQuery.StoreWithParseFunc call and what it did
    stages,         \* BigQuery.StoreWithParseFunc calls so far
    versions,       \* InMemoryService.systemCollectionVersions, by identifier
    incs,           \* per (system, collection), the IncrementVersion calls completed
    lastInc         \* the last GetVersion or IncrementVersion call and its result

workerVars == << staged, closed, pc, queue, queueClosed, now, accepted, sink,
                 archiveCh, archiveClosed, cache, counters, last, hist, afterClose >>

replayVars == << locks, rp, fsFiles, statuses, loads, fileCache, replayCount, lastReplay,
                 lastStore >>

coordVars == << imsLocks, task >>

tableVars == << live, rows, thCache, pkFields, ens, ddlLog, ensureCalls, insertCalls, lastInsert >>

bulkVars == << bulkTable, bulkRows, lastBulk >>

batchVars == << bucket, bqClosed, bqAdapterClosed, bqPc, tickFiles, listed, attempted,
                copies, ticks, copyOnClosed >>

loggerVars == << logCh, alClosed, alPc, alEvent, writerOut, writerClosed, consumed,
                 dropped, pendingAtClose >>

coreHelperVars == << coordVars, tableVars, bulkVars >>

insertVars == << pgInsert, pgInserts >>

factoryVars == << lastCreate, creates, openQueues >>

stageVars == << lastStage, stages >>

versionVars == << versions, incs, lastInc >>

helperVars == << coreHelperVars, batchVars, loggerVars, adapterClosed, insertVars,
                factoryVars, stageVars, versionVars >>

storageVars == << workerVars, fallbackCh, replayVars, batchVars, loggerVars, adapterClosed,
                 insertVars, factoryVars, stageVars, versionVars >>

vars == << staged, closed, pc, queue, queueClosed, now, accepted, sink,
           fallbackCh, archiveCh, archiveClosed, cache, counters, last, hist, afterClose,
           locks, rp, fsFiles, statuses, loads, fileCache, replayCount, lastReplay,
           lastStore,
           imsLocks, task,
           live, rows, thCache, pkFields, ens, ddlLog, ensureCalls, insertCalls, lastInsert,
           bulkTable, bulkRows, lastBulk,
           bucket, bqClosed, bqAdapterClosed, bqPc, tickFiles, listed, attempted,
           copies, ticks, copyOnClosed,
           logCh, alClosed, alPc, alEvent, writerOut, writerClosed, consumed,
           dropped, pendingAtClose,
           adapterClosed, pgInsert, pgInserts,
           lastCreate, creates, openQueues,
           lastStage, stages, versions, incs, lastInc >>

NoLast == [outcome |-> "none", id |-> 0, calls |-> <<>>]
NoStage == [called |-> FALSE, before |-> {}]
NoInc == [op |-> "none", system |-> << >>, collection |-> << >>, result |-> 0]
NoPgInsert == [run |-> << >>, res |-> [err |-> NoErr, stored |-> FALSE, calls |-> 0]]
NoReplay == [fileName |-> <<>>, filePath |-> <<>>, destinationID |-> <<>>]
NoStore == [call |-> [fileName |-> <<>>, already |-> {}, err |-> NoErr, results |-> << >>],
            multiErr |-> {}, archive |-> "none", ret |-> "none"]

Init ==
    /\ staged \in BOOLEAN
    /\ closed = FALSE
    /\ pc = "top"
    /\ queue = <<>>
    /\ queueClosed = FALSE
    /\ now = 0
    /\ accepted = {}
    /\ sink = <<>>
    /\ fallbackCh = <<>>
    /\ archiveCh = <<>>
    /\ archiveClosed = FALSE
    /\ cache = [e \in EventIds |-> [status |-> "none", err |-> NoErr]]
    /\ counters = [skip |-> 0, error |-> 0, success |-> 0]
    /\ last = NoLast
    /\ hist = [e \in EventIds |-> {}]
    /\ afterClose = 0
    /\ locks = {}
    /\ rp = NoReplay
    /\ fsFiles = { Join(FallbackDir, GoodBase), Join(FallbackDir, BadBase) }
    /\ statuses = [f \in Bases |-> [t \in AllTables |-> "none"]]
    /\ loads = [t \in AllTables |-> 0]
    /\ fileCache = [k \in AllTables \cup {"failed"} |-> "none"]
    /\ replayCount = 0
    /\ lastReplay = "none"
    /\ lastStore = NoStore
    /\ imsLocks = {}
    /\ task = [t \in Tasks |-> IdleTask]
    /\ live = NoTable
    /\ rows = << >>
    /\ thCache = NoTable
    /\ pkFields = {"email"}
    /\ ens = [t \in Tasks |-> IdleEnsure]
    /\ ddlLog = << >>
    /\ ensureCalls = 0
    /\ insertCalls = 0
    /\ lastInsert = NoInsert
    /\ bulkTable = NoBulkTable
    /\ bulkRows = << >>
    /\ lastBulk = NoBulk
    /\ bucket = {}
    /\ bqClosed = FALSE
    /\ bqAdapterClosed = FALSE
    /\ bqPc = "top"
    /\ tickFiles = << >>
    /\ listed = {}
    /\ attempted = {}
    /\ copies = [f \in FileKeys |-> 0]
    /\ ticks = 0
    /\ copyOnClosed = FALSE
    /\ logCh = << >>
    /\ alClosed = FALSE
    /\ alPc = "top"
    /\ alEvent = NoLogEvent
    /\ writerOut = << >>
    /\ writerClosed = FALSE
    /\ consumed = << >>
    /\ dropped = {}
    /\ pendingAtClose = << >>
    /\ adapterClosed = FALSE
    /\ pgInsert = NoPgInsert
    /\ pgInserts = 0
    /\ lastCreate = NoCreate
    /\ creates = 0
    /\ openQueues = 0
    /\ lastStage = NoStage
    /\ stages = 0
    /\ versions = [id \in {} |-> 0]
    /\ incs = [p \in Systems \X Collections |-> 0]
    /\ lastInc = NoInc

\* the router puts an accepted event on the queue; event ids are handed out
\* in increasing order
Enqueue ==
    /\ ~queueClosed
    /\ \E e \in {x \in EventIds \ accepted : \A y \in EventIds \ accepted : x <= y} : \E s \in Shapes : \E tok \in TokenIds :
        /\ queue' = Append(queue, [payload |-> [id |-> e, shape |-> s],
                                   notBefore |-> 0, tokenId |-> tok])
        /\ accepted' = accepted \cup {e}
    /\ UNCHANGED << staged, closed, pc, queueClosed, now, sink, fallbackCh,
                    archiveCh, archiveClosed, cache, counters, last, hist, afterClose, replayVars, helperVars >>

\* time passes; the clock is read at multiples of the retry delay
Tick ==
    /\ now + RetryDelay <= MaxNow
    /\ now' = now + RetryDelay
    /\ UNCHANGED << staged, closed, pc, queue, queueClosed, accepted, sink,
                    fallbackCh, archiveCh, archiveClosed, cache, counters,
                    last, hist, afterClose, replayVars, helperVars >>

\* variant: the loop does not look at closed
LoopTopIgnoresClosed ==
    /\ pc = "top"
    /\ pc' = IF staged THEN "exited" ELSE "dequeue"
    /\ UNCHANGED << staged, closed, queue, queueClosed, now, accepted, sink,
                    fallbackCh, archiveCh, archiveClosed, cache, counters,
                    last, hist, afterClose, replayVars, helperVars >>

\* top of the for loop: the staged and closed checks
LoopTop ==
    /\ pc = "top"
    /\ pc' = IF staged \/ closed THEN "exited" ELSE "dequeue"
    /\ UNCHANGED << staged, closed, queue, queueClosed, now, accepted, sink,
                    fallbackCh, archiveCh, archiveClosed, cache, counters,
                    last, hist, afterClose, replayVars, helperVars >>

\* DequeueBlock returned an error: the queue was closed
DequeueError ==
    /\ pc = "dequeue"
    /\ queueClosed
    /\ last' = [outcome |-> "queueclosed", id |-> 0,
                calls |-> IF closed THEN << >>
                          ELSE << Call("SystemErrorf", <<"queue", "closed">>, 0) >>]
    /\ pc' = "top"
    /\ UNCHANGED << staged, closed, queue, queueClosed, now, accepted, sink,
                    fallbackCh, archiveCh, archiveClosed, cache, counters,
                    hist, afterClose, replayVars, helperVars >>

\* DequeueBlock returned the head of the queue and the loop body ran on it
Pass(run) ==
    /\ pc = "dequeue"
    /\ ~queueClosed
    /\ queue # <<>>
    /\ LET rec == Head(queue)
           b == Body(rec, now, run)
           id == rec.payload.id
       IN /\ (b.outcome = "requeued") => now + RetryDelay <= MaxNow
          /\ queue' = Tail(queue) \o Requeued(SelectCalls(b.calls, "ConsumeTimed"), rec)
          /\ fallbackCh' = fallbackCh \o FailedEvents(SelectCalls(b.calls, "Fallback"), rec)
          /\ archiveCh' = archiveCh \o Archived(SelectCalls(b.calls, "archive"), rec)
          /\ sink' = IF NumCalls(b.calls, "Insert") > 0 /\ b.err = NoErr
                     THEN Append(sink, id)
                     ELSE sink
          /\ cache' = CacheAfter(cache, b.calls, ExtractEventID(rec.payload))
          /\ counters' = [skip |-> counters.skip + NumCalls(b.calls, "SkipEvents"),
                          error |-> counters.error + NumCalls(b.calls, "ErrorEvents"),
                          success |-> counters.success + NumCalls(b.calls, "SuccessEvents")]
          /\ last' = [outcome |-> b.outcome, id |-> id, calls |-> b.calls]
          /\ hist' = [hist EXCEPT ![id] = @ \cup ({b.outcome} \ {"notdue"})]
          /\ afterClose' = IF closed THEN afterClose + 1 ELSE afterClose
    /\ pc' = "top"
    /\ UNCHANGED << staged, closed, queueClosed, now, accepted, archiveClosed, replayVars, helperVars >>

\* the pass on a record whose retry time has not come
PassNotDue ==
    /\ queue # <<>> /\ NotDue(now, Head(queue).notBefore)
    /\ Pass(<<OK, OK>>)

\* the pass that ends in the Processor (error or empty header)
PassProcessor ==
    /\ queue # <<>> /\ ~NotDue(now, Head(queue).notBefore)
    /\ Head(queue).payload.shape # "ok"
    /\ Pass(<<OK, OK>>)

\* the pass that reaches streamingStorage.Insert
PassInsert ==
    /\ queue # <<>> /\ ~NotDue(now, Head(queue).notBefore)
    /\ Head(queue).payload.shape = "ok"
    /\ \E run \in InsertRuns : Pass(run)

\* StreamingWorker.Close
Close ==
    /\ ~closed
    /\ closed' = TRUE
    /\ archiveClosed' = TRUE
    /\ UNCHANGED << staged, pc, queue, queueClosed, now, accepted, sink,
                    fallbackCh, archiveCh, cache, counters, last, hist, afterClose, replayVars, helperVars >>

\* PersistentQueue.Close
QueueClose ==
    /\ ~queueClosed
    /\ queueClosed' = TRUE
    /\ UNCHANGED << staged, closed, pc, queue, now, accepted, sink,
                    fallbackCh, archiveCh, archiveClosed, cache, counters,
                    last, hist, afterClose, replayVars, helperVars >>

\* ------------------------------------------------------ fallback replay
\* Replay up to the lock: the name check, the path, LoadOrStore
ReplayBegin ==
    /\ rp = NoReplay
    /\ replayCount < MaxReplays
    /\ \E fileName \in FileNameInputs : \E destinationID \in DestinationInputs :
         /\ replayCount' = replayCount + 1
         /\ IF fileName = <<>>
            THEN /\ lastReplay' = "file name empty"
                 /\ UNCHANGED << locks, rp >>
            ELSE LET filePath == IF IsAbsolute(fileName) THEN fileName
                                 ELSE Join(FallbackDir, fileName)
                     name == IF IsAbsolute(fileName) THEN Base(fileName) ELSE fileName
                 IN IF name \in locks
                    THEN /\ lastReplay' = "being processed"
                         /\ UNCHANGED << locks, rp >>
                    ELSE /\ locks' = locks \cup {name}
                         /\ rp' = [fileName |-> name, filePath |-> filePath,
                                   destinationID |-> destinationID]
                         /\ lastReplay' = "running"
    /\ UNCHANGED << helperVars, workerVars, fallbackCh, fsFiles, statuses, loads, fileCache,
                    lastStore >>

\* a second Replay of a file name that is being replayed
ReplayBusy ==
    /\ rp # NoReplay
    /\ lastReplay = "running"
    /\ \E fileName \in FileNameInputs \ {<<>>} :
         LET name == IF IsAbsolute(fileName) THEN Base(fileName) ELSE fileName
         IN name \in locks
    /\ lastReplay' = "being processed"
    /\ UNCHANGED << helperVars, workerVars, fallbackCh, locks, rp, fsFiles, statuses, loads,
                    fileCache, replayCount, lastStore >>

\* variant: a destination without a storage is not turned away
ReplayCheckIgnoresInit(call) ==
    IF call.filePath \notin fsFiles
    THEN [err |-> "read error", destinationID |-> <<>>]
    ELSE LET m == FindDestinationID(call.fileName)
             destinationID == IF call.destinationID = <<>> THEN m.id
                              ELSE call.destinationID
         IN IF call.destinationID = <<>> /\ ~m.found
            THEN [err |-> "malformed name", destinationID |-> <<>>]
            ELSE IF destinationID \notin KnownDestinations
            THEN [err |-> "destination not found", destinationID |-> destinationID]
            ELSE IF staged
            THEN [err |-> "staged", destinationID |-> destinationID]
            ELSE [err |-> "", destinationID |-> destinationID]

\* variant: the staged flag of the storage is not looked at
ReplayCheckIgnoresStaged(call) ==
    IF call.filePath \notin fsFiles
    THEN [err |-> "read error", destinationID |-> <<>>]
    ELSE LET m == FindDestinationID(call.fileName)
             destinationID == IF call.destinationID = <<>> THEN m.id
                              ELSE call.destinationID
         IN IF call.destinationID = <<>> /\ ~m.found
            THEN [err |-> "malformed name", destinationID |-> <<>>]
            ELSE IF destinationID \notin KnownDestinations
            THEN [err |-> "destination not found", destinationID |-> destinationID]
            ELSE IF destinationID \notin InitializedDestinations
            THEN [err |-> "not initialized", destinationID |-> destinationID]
            ELSE [err |-> "", destinationID |-> destinationID]

\* the checks of Replay between the lock and StoreWithParseFunc: the error
\* it returns, or the destination id it goes on with
ReplayCheck(call) ==
    IF call.filePath \notin fsFiles
    THEN [err |-> "read error", destinationID |-> <<>>]
    ELSE LET m == FindDestinationID(call.fileName)
             destinationID == IF call.destinationID = <<>> THEN m.id
                              ELSE call.destinationID
         IN IF call.destinationID = <<>> /\ ~m.found
            THEN [err |-> "malformed name", destinationID |-> <<>>]
            ELSE IF destinationID \notin KnownDestinations
            THEN [err |-> "destination not found", destinationID |-> destinationID]
            ELSE IF destinationID \notin InitializedDestinations
            THEN [err |-> "not initialized", destinationID |-> destinationID]
            ELSE IF staged
            THEN [err |-> "staged", destinationID |-> destinationID]
            ELSE [err |-> "", destinationID |-> destinationID]

\* variant: the lock is kept when Replay returns an error
ReplayRejectKeepsLock ==
    /\ rp # NoReplay
    /\ ReplayCheck(rp).err # ""
    /\ lastReplay' = ReplayCheck(rp).err
    /\ rp' = NoReplay
    /\ UNCHANGED << helperVars, workerVars, fallbackCh, fsFiles, statuses, loads, fileCache,
                    replayCount, lastStore, locks >>

\* Replay returns an error before it stores anything; the lock is released
ReplayReject ==
    /\ rp # NoReplay
    /\ ReplayCheck(rp).err # ""
    /\ lastReplay' = ReplayCheck(rp).err
    /\ locks' = locks \ {rp.fileName}
    /\ rp' = NoReplay
    /\ UNCHANGED << helperVars, workerVars, fallbackCh, fsFiles, statuses, loads, fileCache,
                    replayCount, lastStore >>

\* variant: the errors of the tables are not collected
MultiErrNone(results) == {}

\* the errors multierror.Append collects from resultPerTable
MultiErr(results) == { <<t, results[t]>> : t \in {x \in DOMAIN results : results[x] # NoErr} }

\* statusManager.UpdateStatus for every table of resultPerTable
UpdateStatus(st, fileName, results) ==
    [st EXCEPT ![fileName] =
        [t \in AllTables |->
            IF t \in DOMAIN results
            THEN (IF results[t] = NoErr THEN "uploaded" ELSE "failed")
            ELSE st[fileName][t]]]

\* statusManager.CleanUp
CleanUp(st, fileName) == [st EXCEPT ![fileName] = [t \in AllTables |-> "none"]]

\* Replay from the status lookup on: StoreWithParseFunc, the statuses, the
\* archive; the lock is released
ReplayStore ==
    /\ rp # NoReplay
    /\ ReplayCheck(rp).err = ""
    /\ \E env \in StoreEnvs : \E archiveOk \in BOOLEAN :
         LET alreadyUploadedTables == {t \in AllTables : statuses[rp.fileName][t] = "uploaded"}
             r == StoreWithParseFunc(rp.fileName, alreadyUploadedTables, env)
             stored == DOMAIN r.results
             multiErr == MultiErr(r.results)
             updated == UpdateStatus(statuses, rp.fileName, r.results)
             call == [fileName |-> rp.fileName, already |-> alreadyUploadedTables,
                      err |-> r.err, results |-> r.results]
         IN IF r.err # NoErr
            THEN /\ lastReplay' = "store error"
                 /\ lastStore' = [call |-> call, multiErr |-> {}, archive |-> "none",
                                  ret |-> "store error"]
                 /\ UNCHANGED << fallbackCh, fsFiles, statuses, loads, fileCache >>
            ELSE /\ loads' = [t \in AllTables |->
                                 IF t \in stored /\ r.results[t] = NoErr
                                 THEN loads[t] + 1 ELSE loads[t]]
                 /\ fileCache' = [k \in AllTables \cup {"failed"} |->
                                    IF k = "failed"
                                    THEN (IF r.failed > 0 THEN "error" ELSE fileCache[k])
                                    ELSE IF k \in stored
                                    THEN (IF r.results[k] = NoErr THEN "ok" ELSE "error")
                                    ELSE fileCache[k]]
                 /\ fallbackCh' = IF r.fallback /\ r.failed > 0
                                  THEN Append(fallbackCh,
                                              [event |-> [id |-> 0, shape |-> "filerow"],
                                               error |-> ErrMapping, eventId |-> 0])
                                  ELSE fallbackCh
                 /\ IF multiErr = {}
                    THEN /\ lastReplay' = "ok"
                         /\ lastStore' = [call |-> call, multiErr |-> multiErr,
                                          archive |-> IF archiveOk THEN "ok" ELSE "error",
                                          ret |-> "ok"]
                         /\ IF archiveOk
                            THEN /\ fsFiles' = fsFiles \ {rp.filePath}
                                 /\ statuses' = CleanUp(updated, rp.fileName)
                            ELSE /\ statuses' = updated
                                 /\ UNCHANGED fsFiles
                    ELSE /\ lastReplay' = "table errors"
                         /\ lastStore' = [call |-> call, multiErr |-> multiErr,
                                          archive |-> "none", ret |-> "table errors"]
                         /\ statuses' = updated
                         /\ UNCHANGED fsFiles
    /\ locks' = locks \ {rp.fileName}
    /\ rp' = NoReplay
    /\ UNCHANGED << helperVars, workerVars, replayCount >>

\* ---- InMemoryService: Lock, TryLock, Unlock ----

IdOf(t) == getIdentifier(task[t].system, task[t].collection)

Entered(kind, system, collection, retryCount) ==
    [pc |-> "attempt", kind |-> kind, system |-> system, collection |-> collection,
     retryCount |-> retryCount, sleeps |-> 0, attempts |-> 0]

\* Lock(system, collection): lockWithRetry(system, collection, 0)
LockCall(t) ==
    /\ task[t].pc \in {"idle", "failed"}
    /\ \E sy \in Systems : \E co \in Collections :
         task' = [task EXCEPT ![t] = Entered("Lock", sy, co, LockRetryCount)]
    /\ UNCHANGED << imsLocks, storageVars, tableVars, bulkVars >>

\* TryLock(system, collection): lockWithRetry(system, collection, 3)
TryLockCall(t) ==
    /\ task[t].pc \in {"idle", "failed"}
    /\ \E sy \in Systems : \E co \in Collections :
         task' = [task EXCEPT ![t] = Entered("TryLock", sy, co, TryLockRetryCount)]
    /\ UNCHANGED << imsLocks, storageVars, tableVars, bulkVars >>

\* variant: Load and Store instead of LoadOrStore, the entry is overwritten
LockAttemptOverwrites(t) ==
    /\ task[t].pc = "attempt"
    /\ imsLocks' = imsLocks \cup {IdOf(t)}
    /\ task' = [task EXCEPT ![t].pc = "held", ![t].attempts = @ + 1]
    /\ UNCHANGED << storageVars, tableVars, bulkVars >>

\* variant: the miss is an error one retry earlier
LockAttemptEarly(t) ==
    /\ task[t].pc = "attempt"
    /\ LET loaded == IdOf(t) \in imsLocks
       IN /\ imsLocks' = imsLocks \cup {IdOf(t)}
          /\ task' = [task EXCEPT ![t].attempts = @ + 1,
                                  ![t].pc = IF ~loaded THEN "held"
                                            ELSE IF task[t].retryCount >= RetryLimit - 1 THEN "failed"
                                            ELSE "sleep"]
    /\ UNCHANGED << storageVars, tableVars, bulkVars >>

\* one entry of lockWithRetry up to the sleep: LoadOrStore, then the lock,
\* the error or time.Sleep
LockAttempt(t) ==
    /\ task[t].pc = "attempt"
    /\ LET loaded == IdOf(t) \in imsLocks
       IN /\ imsLocks' = imsLocks \cup {IdOf(t)}
          /\ task' = [task EXCEPT ![t].attempts = @ + 1,
                                  ![t].pc = IF ~loaded THEN "held"
                                            ELSE IF task[t].retryCount >= RetryLimit THEN "failed"
                                            ELSE "sleep"]
    /\ UNCHANGED << storageVars, tableVars, bulkVars >>

\* time.Sleep(time.Second) is over: lockWithRetry(system, collection, retryCount+1)
LockWake(t) ==
    /\ task[t].pc = "sleep"
    /\ task' = [task EXCEPT ![t].pc = "attempt", ![t].retryCount = @ + 1,
                            ![t].sleeps = @ + 1]
    /\ UNCHANGED << imsLocks, storageVars, tableVars, bulkVars >>

\* Unlock(lock), called by the task that was given the lock
Unlock(t) ==
    /\ task[t].pc = "held"
    /\ imsLocks' = imsLocks \ {IdOf(t)}
    /\ task' = [task EXCEPT ![t] = IdleTask]
    /\ UNCHANGED << storageVars, tableVars, bulkVars >>

\* lock.Unlock() on the InMemoryLock that Lock or TryLock returned: the body
\* is empty, the holder goes on as if the lock were released
LockObjectUnlock(t) ==
    /\ task[t].pc = "held"
    /\ task' = [task EXCEPT ![t] = IdleTask]
    /\ UNCHANGED << imsLocks, storageVars, tableVars, bulkVars >>

\* ---- InMemoryService.GetVersion, IncrementVersion ----

\* the version stored under the identifier of the pair, 0 without an entry
VersionOf(system, collection) ==
    LET identifier == getIdentifier(system, collection)
    IN IF identifier \in DOMAIN versions THEN versions[identifier] ELSE 0

\* GetVersion(system, collection), under the read lock
GetVersion(system, collection) ==
    /\ lastInc' = [op |-> "get", system |-> system, collection |-> collection,
                   result |-> VersionOf(system, collection)]
    /\ UNCHANGED << versions, incs >>
    /\ UNCHANGED << coreHelperVars, workerVars, fallbackCh, replayVars, batchVars,
                    loggerVars, adapterClosed, insertVars, factoryVars, stageVars >>

\* IncrementVersion(system, collection), under the write lock: the entry is
\* created at 0 when the identifier has none, then one is added
IncrementVersion(system, collection) ==
    /\ incs[<<system, collection>>] < MaxIncs
    /\ LET identifier == getIdentifier(system, collection)
           result == VersionOf(system, collection) + 1
       IN /\ versions' = [id \in DOMAIN versions \cup {identifier} |->
                             IF id = identifier THEN result ELSE versions[id]]
          /\ incs' = [incs EXCEPT ![<<system, collection>>] = @ + 1]
          /\ lastInc' = [op |-> "inc", system |-> system, collection |-> collection,
                         result |-> result]
    /\ UNCHANGED << coreHelperVars, workerVars, fallbackCh, replayVars, batchVars,
                    loggerVars, adapterClosed, insertVars, factoryVars, stageVars >>

\* ---- TableHelper.EnsureTable, Insert through the adapter ----

\* the lock is given back and the call into the service is over
Released(t) ==
    /\ imsLocks' = imsLocks \ {IdOf(t)}
    /\ task' = [task EXCEPT ![t] = IdleTask]

\* steps 1 to 3 of ensure: the delta against the cached table; without one
\* the cached table is returned, otherwise the named lock is asked for
EnsureBegin(t) ==
    /\ ens[t].pc \in {"idle", "done", "error"}
    /\ task[t].pc = "idle"
    /\ ensureCalls < MaxEnsures
    /\ ensureCalls' = ensureCalls + 1
    /\ \E header \in Headers :
        LET table == MapTableSchema(header, pkFields)
        IN IF ~DiffExists(thCache, table)
           THEN /\ ens' = [ens EXCEPT ![t] = [pc |-> "done", header |-> header,
                                              path |-> "cached", result |-> thCache]]
                /\ task' = task
           ELSE /\ ens' = [ens EXCEPT ![t] = [pc |-> "lock", header |-> header,
                                              path |-> "none", result |-> NoTable]]
                /\ task' = [task EXCEPT ![t] =
                               Entered("TryLock", DestID, TableName, TryLockRetryCount)]
    /\ UNCHANGED << imsLocks, live, rows, thCache, pkFields, ddlLog, insertCalls,
                    lastInsert, storageVars, bulkVars >>

\* the lock was not given: ensure returns the error
EnsureLockFailed(t) ==
    /\ ens[t].pc = "lock"
    /\ task[t].pc = "failed"
    /\ ens' = [ens EXCEPT ![t].pc = "error"]
    /\ task' = [task EXCEPT ![t] = IdleTask]
    /\ UNCHANGED << imsLocks, live, rows, thCache, pkFields, ddlLog, ensureCalls,
                    insertCalls, lastInsert, storageVars, bulkVars >>

\* steps 4 and 5 of ensure, under the lock: the live schema is read and the
\* delta recomputed; without one the cache is updated and the lock released
EnsureReadLive(t) ==
    /\ ens[t].pc = "lock"
    /\ task[t].pc = "held"
    /\ LET db == GetTableSchema(live)
           table == MapTableSchema(ens[t].header, pkFields)
       IN IF ~DiffExists(db, table)
          THEN /\ ens' = [ens EXCEPT ![t].pc = "done", ![t].path = "nodelta",
                                     ![t].result = db]
               /\ thCache' = db
               /\ Released(t)
          ELSE /\ ens' = [ens EXCEPT ![t].pc = "ddl", ![t].result = db]
               /\ UNCHANGED << thCache, imsLocks, task >>
    /\ UNCHANGED << live, rows, pkFields, ddlLog, ensureCalls, insertCalls,
                    lastInsert, storageVars, bulkVars >>

\* steps 5 and 6 of ensure, under the lock: CreateTable when the table read
\* was absent, PatchTableSchema otherwise; then the cache is updated, or
\* dropped on error, and the lock released
EnsureDDL(t) ==
    /\ ens[t].pc = "ddl"
    /\ task[t].pc = "held"
    /\ \E fault \in BOOLEAN :
        LET db == ens[t].result
            table == MapTableSchema(ens[t].header, pkFields)
            create == db.columns = {}
            diff == Diff(db, table)
            r == IF create THEN CreateTable(live, rows, table, fault)
                 ELSE PatchTableSchema(live, rows, diff, fault)
            known == IF create THEN table
                     ELSE [columns |-> db.columns \cup diff.columns, pk |-> table.pk]
        IN /\ live' = r.live
           /\ ddlLog' = Append(ddlLog,
                 [op |-> IF create THEN "create" ELSE "patch",
                  columns |-> IF create THEN table.columns ELSE diff.columns,
                  deletePk |-> ~create /\ diff.deletePk,
                  t |-> t, ok |-> ~r.err])
           /\ thCache' = IF r.err THEN NoTable ELSE known
           /\ ens' = [ens EXCEPT ![t].pc = IF r.err THEN "error" ELSE "done",
                                 ![t].path = IF create THEN "create" ELSE "patch",
                                 ![t].result = IF r.err THEN NoTable ELSE known]
    /\ Released(t)
    /\ UNCHANGED << rows, pkFields, ensureCalls, insertCalls, lastInsert, storageVars, bulkVars >>

\* the configuration is reloaded without primary key fields: a new
\* TableHelper, with an empty cache, replaces the old one
Reload ==
    /\ pkFields # {}
    /\ \A t \in Tasks : ens[t].pc \in {"idle", "done", "error"} /\ task[t].pc = "idle"
    /\ pkFields' = {}
    /\ thCache' = NoTable
    /\ ens' = [t \in Tasks |-> IdleEnsure]
    /\ UNCHANGED << coordVars, live, rows, ddlLog, ensureCalls, insertCalls,
                    lastInsert, storageVars, bulkVars >>

\* Insert of one object through the adapter, with the table ensure returned
InsertCall(t) ==
    /\ ens[t].pc = "done"
    /\ insertCalls < MaxInserts
    /\ insertCalls' = insertCalls + 1
    /\ \E email \in Emails : \E name \in Names : \E fault \in BOOLEAN :
        LET row == RowOf(ens[t].header, email, name)
            r == AdapterInsert(live, rows, ens[t].result, ens[t].header, row, fault)
        IN /\ rows' = r.rows
           /\ lastInsert' = [err |-> r.err, fault |-> fault, t |-> t, row |-> row,
                             table |-> ens[t].result, before |-> Len(rows)]
    /\ UNCHANGED << coordVars, live, thCache, pkFields, ens, ddlLog, ensureCalls,
                    storageVars, bulkVars >>

\* ---- BulkInsert and BulkUpdate on a test table ----

\* the table is created, with or without primary key, and may hold rows
BulkSetup ==
    /\ bulkTable = NoBulkTable
    /\ \E width \in BulkWidths : \E pk \in BOOLEAN :
       \E seed \in SeqsUpTo(ObjectKeys, MaxSeedRows) :
        /\ pk => Cardinality(KeysOf(seed)) = Len(seed)
        /\ bulkTable' = [width |-> width, pk |-> pk]
        /\ bulkRows' = seed
    /\ UNCHANGED << lastBulk, storageVars, coordVars, tableVars >>

\* one BulkInsert or BulkUpdate call of an adapter, from OpenTx to its return
BulkCall ==
    /\ bulkTable # NoBulkTable
    /\ lastBulk = NoBulk
    /\ \E adapter \in Adapters : \E op \in BulkOps :
       \E objects \in SeqsUpTo(ObjectKeys, MaxBulkRows) :
       \E cond \in DeleteConditions : \E openFails \in BOOLEAN : \E failAt \in FailAts :
        LET c == IF op = "BulkUpdate" THEN cond ELSE "none"
            res == IF adapter = "Mysql"
                   THEN MysqlBulk(op, bulkRows, bulkTable, objects, c, openFails, failAt)
                   ELSE ClickHouseBulk(op, bulkRows, bulkTable, objects, c, openFails, failAt)
        IN /\ bulkRows' = res.rows
           /\ lastBulk' = [adapter |-> adapter, op |-> op, objects |-> objects, cond |-> c,
                           openFails |-> openFails, failAt |-> failAt,
                           before |-> bulkRows, res |-> res]
    /\ UNCHANGED << bulkTable, storageVars, coordVars, tableVars >>

\* the test database is thrown away
BulkReset ==
    /\ bulkTable # NoBulkTable
    /\ bulkTable' = NoBulkTable
    /\ bulkRows' = << >>
    /\ lastBulk' = NoBulk
    /\ UNCHANGED << storageVars, coordVars, tableVars >>

\* ---- BigQuery: startBatch, Close ----

\* gcsAdapter.UploadBytes in StoreWithParseFunc: a new file in the bucket
UploadBytes ==
    /\ ~bqAdapterClosed
    /\ \E f \in FileKeys :
        /\ f \notin bucket
        /\ copies[f] = 0
        /\ bucket' = bucket \cup {f}
    /\ UNCHANGED << bqClosed, bqAdapterClosed, bqPc, tickFiles, listed, attempted, copies,
                    ticks, copyOnClosed, coreHelperVars, workerVars, fallbackCh, replayVars,
                    loggerVars, adapterClosed, insertVars, factoryVars,
                    stageVars, versionVars >>

\* top of the for loop: the closed check
BatchLoopTop ==
    /\ bqPc = "top"
    /\ bqPc' = IF bqClosed THEN "exited" ELSE "sleep"
    /\ UNCHANGED << bucket, bqClosed, bqAdapterClosed, tickFiles, listed, attempted, copies,
                    ticks, copyOnClosed, coreHelperVars, workerVars, fallbackCh, replayVars,
                    loggerVars, adapterClosed, insertVars, factoryVars,
                    stageVars, versionVars >>

\* after the sleep: ListBucket; an error or an empty list ends the tick
BatchList ==
    /\ bqPc = "sleep"
    /\ ticks < MaxTicks
    /\ ticks' = ticks + 1
    /\ attempted' = {}
    /\ \E ok \in (IF bqAdapterClosed THEN {FALSE} ELSE BOOLEAN) :
       \E filesKeys \in Orders(bucket) :
         IF ~ok \/ filesKeys = << >>
         THEN /\ listed' = {}
              /\ tickFiles' = << >>
              /\ bqPc' = "top"
         ELSE /\ listed' = bucket
              /\ tickFiles' = filesKeys
              /\ bqPc' = "files"
    /\ UNCHANGED << bucket, bqClosed, bqAdapterClosed, copies, copyOnClosed,
                    coreHelperVars, workerVars, fallbackCh, replayVars,
                    loggerVars, adapterClosed, insertVars, factoryVars,
                    stageVars, versionVars >>

\* one iteration of the loop over the file keys
BatchFile ==
    /\ bqPc = "files"
    /\ tickFiles # << >>
    /\ \E copyOk \in (IF bqAdapterClosed THEN {FALSE} ELSE BOOLEAN) :
       \E deleteOk \in (IF bqAdapterClosed THEN {FALSE} ELSE BOOLEAN) :
         LET fileKey == Head(tickFiles)
             r == FileStep(bucket, copies, fileKey, copyOk, deleteOk)
         IN /\ bucket' = r.bucket
            /\ copies' = r.copies
            /\ attempted' = IF r.copyCalled THEN attempted \cup {fileKey} ELSE attempted
            /\ copyOnClosed' = (copyOnClosed \/ (r.copyCalled /\ bqAdapterClosed))
    /\ tickFiles' = Tail(tickFiles)
    /\ bqPc' = IF Tail(tickFiles) = << >> THEN "top" ELSE "files"
    /\ UNCHANGED << bqClosed, bqAdapterClosed, listed, ticks,
                    coreHelperVars, workerVars, fallbackCh, replayVars,
                    loggerVars, adapterClosed, insertVars, factoryVars,
                    stageVars, versionVars >>

\* BigQuery.Close: closed, gcsAdapter.Close, bqAdapter.Close
BigQueryClose ==
    /\ ~bqClosed
    /\ bqClosed' = TRUE
    /\ bqAdapterClosed' = TRUE
    /\ UNCHANGED << bucket, bqPc, tickFiles, listed, attempted, copies, ticks, copyOnClosed,
                    coreHelperVars, workerVars, fallbackCh, replayVars,
                    loggerVars, adapterClosed, insertVars, factoryVars,
                    stageVars, versionVars >>

\* ---- AsyncLogger ----

\* variant: a send on a full channel gives the event up
SendDropsWhenFull(ev) ==
    /\ Len(consumed) < MaxLogEvents
    /\ consumed' = Append(consumed, ev)
    /\ logCh' = IF Len(logCh) < LogChCap THEN Append(logCh, ev) ELSE logCh
    /\ UNCHANGED << alClosed, alPc, alEvent, writerOut, writerClosed, dropped, pendingAtClose,
                    coreHelperVars, workerVars, fallbackCh, replayVars, batchVars,
                    adapterClosed, insertVars, factoryVars,
                    stageVars, versionVars >>

\* al.logCh <- event: the send waits while the channel is full
Send(ev) ==
    /\ Len(consumed) < MaxLogEvents
    /\ Len(logCh) < LogChCap
    /\ consumed' = Append(consumed, ev)
    /\ logCh' = Append(logCh, ev)
    /\ UNCHANGED << alClosed, alPc, alEvent, writerOut, writerClosed, dropped, pendingAtClose,
                    coreHelperVars, workerVars, fallbackCh, replayVars, batchVars,
                    adapterClosed, insertVars, factoryVars,
                    stageVars, versionVars >>

\* AsyncLogger.Consume: an event map
Consume == Send(LogEvent(Len(consumed) + 1, TRUE))

\* AsyncLogger.ConsumeAny: any object, also one json.Marshal refuses
ConsumeAny == \E ok \in BOOLEAN : Send(LogEvent(Len(consumed) + 1, ok))

\* top of the for loop of the logger goroutine: the closed check
LoggerLoopTop ==
    /\ alPc = "top"
    /\ alPc' = IF alClosed THEN "exited" ELSE "recv"
    /\ UNCHANGED << logCh, alClosed, alEvent, writerOut, writerClosed, consumed, dropped,
                    pendingAtClose, coreHelperVars, workerVars, fallbackCh, replayVars,
                    batchVars, adapterClosed, insertVars, factoryVars,
                    stageVars, versionVars >>

\* event := <-logger.logCh
LoggerRecv ==
    /\ alPc = "recv"
    /\ logCh # << >>
    /\ alEvent' = Head(logCh)
    /\ logCh' = Tail(logCh)
    /\ alPc' = "write"
    /\ UNCHANGED << alClosed, writerOut, writerClosed, consumed, dropped, pendingAtClose,
                    coreHelperVars, workerVars, fallbackCh, replayVars, batchVars,
                    adapterClosed, insertVars, factoryVars,
                    stageVars, versionVars >>

\* json.Marshal and writer.Write; an error of either is logged and the loop
\* goes on with the next event
LoggerWrite ==
    /\ alPc = "write"
    /\ \E writeOk \in (IF writerClosed THEN {FALSE} ELSE BOOLEAN) :
         IF ~alEvent.ok
         THEN /\ dropped' = dropped \cup {[id |-> alEvent.id, cause |-> "marshal"]}
              /\ UNCHANGED writerOut
         ELSE IF ~writeOk
         THEN /\ dropped' = dropped \cup {[id |-> alEvent.id, cause |-> "write"]}
              /\ UNCHANGED writerOut
         ELSE /\ writerOut' = Append(writerOut, LogLine(alEvent))
              /\ UNCHANGED dropped
    /\ alEvent' = NoLogEvent
    /\ alPc' = "top"
    /\ UNCHANGED << logCh, alClosed, writerClosed, consumed, pendingAtClose,
                    coreHelperVars, workerVars, fallbackCh, replayVars, batchVars,
                    adapterClosed, insertVars, factoryVars,
                    stageVars, versionVars >>

\* AsyncLogger.Close: closed, writer.Close
LoggerClose ==
    /\ ~alClosed
    /\ alClosed' = TRUE
    /\ writerClosed' = TRUE
    /\ pendingAtClose' = (IF alPc = "write" THEN << alEvent >> ELSE << >>) \o logCh
    /\ UNCHANGED << logCh, alPc, alEvent, writerOut, consumed, dropped,
                    coreHelperVars, workerVars, fallbackCh, replayVars, batchVars,
                    adapterClosed, insertVars, factoryVars,
                    stageVars, versionVars >>

\* ---- Postgres.Close, Postgres.Insert ----

\* Postgres.Close, first statement: adapter.Close
PostgresCloseAdapter ==
    /\ ~adapterClosed
    /\ adapterClosed' = TRUE
    /\ UNCHANGED << coreHelperVars, workerVars, fallbackCh, replayVars, batchVars,
                    loggerVars, insertVars, factoryVars,
                    stageVars, versionVars >>

\* Postgres.Close, second statement: streamingWorker.Close
PostgresCloseWorker ==
    /\ adapterClosed
    /\ Close

\* Postgres.Close, third statement: fallbackLogger.Close
PostgresCloseFallback ==
    /\ adapterClosed
    /\ closed
    /\ LoggerClose

\* the worker pass that reaches Insert; a closed adapter stores nothing
PassInsertOnAdapter ==
    /\ PassInsert
    /\ adapterClosed => sink' = sink

\* one Postgres.Insert call with the answers of run
InsertApply ==
    /\ pgInserts < MaxPgInserts
    /\ pgInserts' = pgInserts + 1
    /\ \E run \in InsertRuns : pgInsert' = [run |-> run, res |-> PostgresInsert(run)]
    /\ UNCHANGED << coreHelperVars, workerVars, fallbackCh, replayVars, batchVars,
                    loggerVars, adapterClosed, factoryVars,
                    stageVars, versionVars >>

\* ---- Factory.Create ----

FactoryCreate ==
    /\ creates < MaxCreates
    /\ creates' = creates + 1
    /\ \E name \in NameInputs : \E type \in TypeInputs : \E mode \in ModeInputs :
       \E fault \in CreateFaults :
         LET res == Create(name, type, mode, fault)
         IN /\ lastCreate' = [name |-> name, type |-> type, mode |-> mode,
                              fault |-> fault, res |-> res]
            /\ openQueues' = IF res.opened /\ ~res.closedQueue /\ ~res.queue
                             THEN openQueues + 1 ELSE openQueues
    /\ UNCHANGED << coreHelperVars, workerVars, fallbackCh, replayVars, batchVars,
                    loggerVars, adapterClosed, insertVars,
                    stageVars, versionVars >>

\* ---- BigQuery.StoreWithParseFunc ----

BigQueryStore ==
    /\ ~bqAdapterClosed
    /\ stages < MaxStages
    /\ stages' = stages + 1
    /\ \E env \in StageEnvs :
         LET res == BigQueryStoreWithParseFunc(env)
         IN /\ bucket' = bucket \cup { KeyOfTable(t) : t \in res.uploaded }
            /\ lastStage' = [called |-> TRUE, before |-> bucket, env |-> env, res |-> res]
    /\ UNCHANGED << bqClosed, bqAdapterClosed, bqPc, tickFiles, listed, attempted, copies,
                    ticks, copyOnClosed, coreHelperVars, workerVars, fallbackCh, replayVars,
                    loggerVars, adapterClosed, insertVars, factoryVars, versionVars >>

Worker == LoopTop \/ DequeueError \/ PassNotDue \/ PassProcessor \/ PassInsert

Next ==
    \/ Enqueue
    \/ Tick
    \/ LoopTop
    \/ DequeueError
    \/ PassNotDue
    \/ PassProcessor
    \/ PassInsert
    \/ Close
    \/ QueueClose

Spec == Init /\ [][Next]_vars

TypeOK ==
    /\ pc \in {"top", "dequeue", "exited"}
    /\ now \in 0..MaxNow
    /\ Len(queue) <= NumEvents

\* the worker of a destination that is never closed
RunNext ==
    \/ Enqueue
    \/ Tick
    \/ LoopTop
    \/ PassNotDue
    \/ PassProcessor
    \/ PassInsert

\* fairness of the worker goroutine and of the clock
LiveSpec == Init /\ [][RunNext]_vars /\ WF_vars(Worker) /\ WF_vars(Tick)

\* the router enqueues a single event
EnqueueFirst == accepted = {} /\ Enqueue

\* at shutdown the owner of the queue closes it once the worker was closed
ShutdownQueue == closed /\ QueueClose

\* shutdown of a destination with one event in flight
ShutdownNext ==
    \/ EnqueueFirst
    \/ Tick
    \/ LoopTop
    \/ DequeueError
    \/ PassNotDue
    \/ PassProcessor
    \/ PassInsert
    \/ Close
    \/ QueueClose

ShutdownSpec ==
    Init /\ [][ShutdownNext]_vars /\ WF_vars(Worker) /\ WF_vars(ShutdownQueue)

\* one destination, staged or not, with one event and fallback replays
DestNext ==
    \/ EnqueueFirst
    \/ Tick
    \/ LoopTop
    \/ PassNotDue
    \/ PassProcessor
    \/ PassInsert
    \/ ReplayBegin
    \/ ReplayBusy
    \/ ReplayReject
    \/ ReplayStore

DestSpec == Init /\ [][DestNext]_vars

\* tasks calling the coordination service
LockNext ==
    \E t \in Tasks :
        \/ LockCall(t)
        \/ TryLockCall(t)
        \/ LockAttempt(t)
        \/ LockWake(t)
        \/ Unlock(t)

LockSpec == Init /\ [][LockNext]_vars

\* the holders release through the lock object
LockObjNext ==
    \E t \in Tasks :
        \/ LockCall(t)
        \/ TryLockCall(t)
        \/ LockAttempt(t)
        \/ LockWake(t)
        \/ LockObjectUnlock(t)

LockObjSpec == Init /\ [][LockObjNext]_vars

\* callers reading and incrementing the versions of the pairs
VersionNext ==
    \E sy \in Systems : \E co \in Collections :
        \/ GetVersion(sy, co)
        \/ IncrementVersion(sy, co)

VersionSpec == Init /\ [][VersionNext]_vars

\* tasks ensuring the same table through one TableHelper
EnsureNext ==
    \/ \E t \in Tasks :
        \/ EnsureBegin(t)
        \/ LockAttempt(t)
        \/ EnsureLockFailed(t)
        \/ EnsureReadLive(t)
        \/ EnsureDDL(t)
    \/ Reload

EnsureSpec == Init /\ [][EnsureNext]_vars

\* one task ensuring the table and inserting into it
PkNext ==
    \/ EnsureBegin(1)
    \/ LockAttempt(1)
    \/ EnsureReadLive(1)
    \/ EnsureDDL(1)
    \/ InsertCall(1)
    \/ Reload

PkSpec == Init /\ [][PkNext]_vars

\* bulk calls on a test table
BulkNext == BulkSetup \/ BulkCall \/ BulkReset

BulkSpec == Init /\ [][BulkNext]_vars

BatchNext == UploadBytes \/ BatchLoopTop \/ BatchList \/ BatchFile \/ BigQueryClose

BatchSpec == Init /\ [][BatchNext]_vars

LoggerNext ==
    Consume \/ ConsumeAny \/ LoggerLoopTop \/ LoggerRecv \/ LoggerWrite \/ LoggerClose

LoggerSpec == Init /\ [][LoggerNext]_vars

CloseNext ==
    \/ Enqueue
    \/ Tick
    \/ LoopTop
    \/ DequeueError
    \/ PassNotDue
    \/ PassProcessor
    \/ PassInsertOnAdapter
    \/ QueueClose
    \/ PostgresCloseAdapter
    \/ PostgresCloseWorker
    \/ PostgresCloseFallback

CloseSpec == Init /\ [][CloseNext]_vars

InsertSpec == Init /\ [][InsertApply]_vars

StageSpec == Init /\ [][BigQueryStore]_vars

FactorySpec == Init /\ [][FactoryCreate]_vars

\* ------------------------------------------------------------ vocabulary
InQueue(e) == \E i \in 1..Len(queue) : queue[i].payload.id = e
InSink(e) == \E i \in 1..Len(sink) : sink[i] = e
InFallback(e) == \E i \in 1..Len(fallbackCh) : fallbackCh[i].eventId = e
RowsOf(e) == Cardinality({i \in 1..Len(sink) : sink[i] = e})
FallbackEntriesOf(e) == Cardinality({i \in 1..Len(fallbackCh) : fallbackCh[i].eventId = e})

\* a step in which DequeueBlock returned a record and the loop body ran
PassStep == pc = "dequeue" /\ pc' = "top" /\ ~queueClosed /\ queue # <<>>
\* ... on a record whose retry time has come
DuePassStep == PassStep /\ now >= Head(queue).notBefore
\* the error streamingStorage.Insert returned in the step (NoErr: none, or
\* Insert was not called)
InsertErrOf(l) ==
    LET ins == SelectCalls(l.calls, "Insert")
    IN IF ins = <<>> THEN NoErr ELSE ins[1].err
InsertCalled(l) == NumCalls(l.calls, "Insert") > 0

\* ------------------------------------------------------------------- C1
\* C1 as stated: every event the worker has dequeued is in the sink, in the
\* fallback log or back in the queue.
C1_AsStated ==
    \A e \in EventIds :
        hist[e] # {} => (InSink(e) \/ InFallback(e) \/ InQueue(e))

\* C1 amended: every accepted event is in the sink, in the fallback log or
\* in the queue, unless the Processor skipped it (ErrSkipObject) or derived
\* an empty header for it, in which case the worker discards it.
C1_Accounted ==
    \A e \in accepted :
        \/ InSink(e)
        \/ InFallback(e)
        \/ InQueue(e)
        \/ hist[e] \cap {"skipped", "dropped"} # {}

C1_Witness ==
    \E e1, e2 \in EventIds :
        /\ "fallback" \in hist[e1] /\ InFallback(e1) /\ ~InQueue(e1)
        /\ "requeued" \in hist[e2] /\ InQueue(e2)

\* ------------------------------------------------------------------- C2
Delivered(e) == InSink(e) \/ InFallback(e)
Discarded(e) == hist[e] \cap {"skipped", "dropped"} # {}

\* C2 as stated: with a worker that is not closed and a sink that stops
\* failing transiently, no dequeued event stays forever without being
\* delivered to the sink or written to fallback.
C2_AsStated ==
    \A e \in EventIds : []<>~(hist[e] # {} /\ ~Delivered(e))

\* C2 amended: with a worker that is not closed and a sink that stops
\* failing transiently, no dequeued event stays forever without being
\* delivered, written to fallback, skipped (ErrSkipObject) or dropped
\* (empty header).
C2_Terminal ==
    \A e \in EventIds : []<>~(hist[e] # {} /\ ~Delivered(e) /\ ~Discarded(e))

C2_Witness ==
    \E e \in EventIds :
        /\ "requeued" \in hist[e] /\ InSink(e)
        /\ last.outcome = "inserted" /\ last.id = e
        /\ now > 0

\* ------------------------------------------------------------------- C3
\* C3: a pass on a due event has exactly one of the effects skip, fallback,
\* requeue, insert (none when the header is empty), never requeue together
\* with fallback, never two fallback entries, and the loop goes back to its
\* top whatever the error.
C3_OneOutcome ==
    [][ DuePassStep =>
          LET requeues == Len(queue') - (Len(queue) - 1)
              fallbacks == Len(fallbackCh') - Len(fallbackCh)
              inserts == Len(sink') - Len(sink)
              skips == counters'.skip - counters.skip
              p == ProcessEvent(Head(queue).payload)
          IN /\ pc' = "top"
             /\ {requeues, fallbacks, inserts, skips} \subseteq {0, 1}
             /\ requeues + fallbacks + inserts + skips =
                    (IF p.err = NoErr /\ ~Exists(p) THEN 0 ELSE 1)
      ]_vars

C3_Witness ==
    /\ last.outcome = "fallback"
    /\ pc = "top"
    /\ \E e \in EventIds : "dropped" \in hist[e]

\* ------------------------------------------------------------------- C4
\* the markers as the claim lists them
ClaimMarkers ==
    { <<"connection", "refused">>,
      <<"EOF">>,
      <<"broken", "pipe">>,
      <<"deadline", "exceeded">>,
      <<"connection", "reset">> }

\* what a pass does with a transient Insert error, and what holds of an
\* event delivered after such a pass
RequeueStep(isMarked(_)) ==
    (DuePassStep /\ InsertCalled(last') /\ InsertErrOf(last') # NoErr
        /\ isMarked(InsertErrOf(last')))
    => /\ queue' = Append(Tail(queue),
                          [payload |-> Head(queue).payload,
                           notBefore |-> now + 20,
                           tokenId |-> Head(queue).tokenId])
       /\ fallbackCh' = fallbackCh

DeliveredAfterRetry ==
    \A e \in EventIds :
        ("requeued" \in hist[e] /\ InSink(e)) =>
            /\ FallbackEntriesOf(e) = 0
            /\ RowsOf(e) = 1
            /\ counters.success = Len(sink)

ClaimMarked(err) == \E m \in ClaimMarkers : Contains(err, m)
CodeMarked(err) ==
    \/ Contains(err, <<"connection", "refused">>)
    \/ Contains(err, <<"EOF">>)
    \/ Contains(err, <<"write:", "broken", "pipe">>)
    \/ Contains(err, <<"context", "deadline", "exceeded">>)
    \/ Contains(err, <<"connection", "reset", "by", "peer">>)

\* C4 as stated: an Insert error containing "connection refused", "EOF",
\* "broken pipe", "deadline exceeded" or "connection reset" re-enqueues the
\* event with notBefore = now + 20s and writes nothing to fallback.
C4_AsStated == [][RequeueStep(ClaimMarked)]_vars

\* C4 amended: an Insert error containing "connection refused", "EOF",
\* "write: broken pipe", "context deadline exceeded" or "connection reset by
\* peer" re-enqueues the original event with notBefore = now + 20s and
\* writes nothing to fallback; an event delivered on a later attempt has no
\* fallback entry, one row, and one success counted per row.
C4_Requeue == [][RequeueStep(CodeMarked)]_vars /\ []DeliveredAfterRetry

C4_Witness ==
    \E e \in EventIds :
        /\ "requeued" \in hist[e]
        /\ InSink(e)
        /\ last.outcome = "inserted" /\ last.id = e

\* ------------------------------------------------------------------- C5
\* C5: an Insert error with no transient marker writes exactly one
\* FailedEvent with the error text to fallback, records the error for the
\* event id in the cache and does not re-enqueue the event.
C5_PermanentToFallback ==
    [][ (DuePassStep /\ InsertCalled(last') /\ InsertErrOf(last') # NoErr
            /\ ~CodeMarked(InsertErrOf(last')))
        => LET fact == Head(queue).payload IN
           /\ fallbackCh' = Append(fallbackCh,
                                   [event |-> fact,
                                    error |-> InsertErrOf(last'),
                                    eventId |-> fact.id])
           /\ cache'[fact.id] = [status |-> "error", err |-> InsertErrOf(last')]
           /\ queue' = Tail(queue)
      ]_vars

C5_Witness ==
    /\ last.outcome = "fallback"
    /\ InsertErrOf(last) = <<"syntax", "error">>
    /\ FallbackEntriesOf(last.id) = 1

\* ------------------------------------------------------------------- C6
\* C6: a record dequeued before its notBefore goes back on the queue with
\* the same notBefore and nothing else changes; no row is inserted before
\* the notBefore of its record.
C6_NotBefore ==
    [][ /\ (PassStep /\ now < Head(queue).notBefore) =>
              /\ queue' = Append(Tail(queue), Head(queue))
              /\ UNCHANGED << sink, fallbackCh, archiveCh, cache, counters >>
        /\ (PassStep /\ Len(sink') > Len(sink)) => now >= Head(queue).notBefore
      ]_vars

C6_Witness ==
    /\ last.outcome = "notdue"
    /\ InQueue(last.id)
    /\ "requeued" \in hist[last.id]

\* ------------------------------------------------------------------- C7
\* C7: ErrSkipObject adds one to the skip counter and records the error in
\* the cache, and the event is not inserted, not written to fallback, not
\* re-enqueued and not archived; any other processing error writes one
\* FailedEvent to fallback and records the error in the cache.
C7_ProcessError ==
    [][ DuePassStep =>
          LET fact == Head(queue).payload
              p == ProcessEvent(fact)
          IN /\ (p.err = ErrSkipObject) =>
                    /\ counters'.skip = counters.skip + 1
                    /\ cache'[fact.id] = [status |-> "error", err |-> ErrSkipObject]
                    /\ queue' = Tail(queue)
                    /\ UNCHANGED << sink, fallbackCh, archiveCh >>
             /\ (p.err # NoErr /\ p.err # ErrSkipObject) =>
                    /\ fallbackCh' = Append(fallbackCh,
                                            [event |-> fact, error |-> p.err,
                                             eventId |-> fact.id])
                    /\ cache'[fact.id] = [status |-> "error", err |-> p.err]
                    /\ counters'.skip = counters.skip
                    /\ queue' = Tail(queue)
                    /\ UNCHANGED << sink, archiveCh >>
      ]_vars

C7_Witness ==
    /\ counters.skip = 1
    /\ \E e \in EventIds : "procfallback" \in hist[e] /\ FallbackEntriesOf(e) = 1

\* ------------------------------------------------------------------- C8
\* C8: the events handed to the archive logger are exactly the events whose
\* Insert succeeded, once each and in that order, and in the pass the
\* archive call comes after the success counter and the cache update.
C8_ArchiveIffInserted ==
    /\ Len(archiveCh) = Len(sink)
    /\ \A i \in 1..Len(sink) : archiveCh[i].id = sink[i]
    /\ (NumCalls(last.calls, "archive") > 0) =>
          /\ last.outcome = "inserted"
          /\ NumCalls(last.calls, "archive") = 1
          /\ IndexOf(last.calls, "SuccessEvents") > 0
          /\ IndexOf(last.calls, "cache.Succeed") > 0
          /\ IndexOf(last.calls, "archive") > IndexOf(last.calls, "SuccessEvents")
          /\ IndexOf(last.calls, "archive") > IndexOf(last.calls, "cache.Succeed")
    /\ (last.outcome = "inserted") => NumCalls(last.calls, "archive") = 1

C8_Witness ==
    /\ last.outcome = "inserted"
    /\ Len(archiveCh) = 1
    /\ Len(fallbackCh) = 1

C10_StagedNoWrites ==
    staged =>
        /\ pc \in {"top", "exited"}
        /\ last = NoLast
        /\ \A e \in EventIds : hist[e] = {}
        /\ \A e \in accepted : InQueue(e)
        /\ sink = << >>
        /\ \A t \in AllTables : loads[t] = 0 /\ (\A f \in Bases : statuses[f][t] = "none")
        /\ fallbackCh = << >> /\ archiveCh = << >>
        /\ lastReplay \notin {"ok", "table errors", "store error"}

C10_Witness ==
    /\ staged
    /\ pc = "exited"
    /\ queue # << >>
    /\ lastReplay = "staged"
    /\ replayCount = MaxReplays

\* ---- coordination service claims ----

Holders(system, collection) ==
    {t \in Tasks : /\ task[t].pc = "held"
                   /\ task[t].system = system
                   /\ task[t].collection = collection}

\* C11: under any interleaving of Lock, TryLock and Unlock by concurrent
\* tasks, where only the holder unlocks, at most one task holds the lock of
\* a (system, collection) pair at a time
C11_MutualExclusion ==
    \A sy \in Systems : \A co \in Collections :
        /\ Cardinality(Holders(sy, co)) <= 1
        /\ Holders(sy, co) # {} => getIdentifier(sy, co) \in imsLocks

\* one task holds the lock while another has tried the same pair and missed
C11_Witness ==
    \E t1 \in Tasks : \E t2 \in Tasks \ {t1} :
        /\ task[t1].pc = "held"
        /\ task[t2].pc \in {"sleep", "failed"}
        /\ task[t2].system = task[t1].system
        /\ task[t2].collection = task[t1].collection

C13_AsStated ==
    \A t \in Tasks :
        (task[t].kind = "TryLock" /\ task[t].pc = "failed") =>
            (task[t].sleeps = 3 /\ task[t].attempts = 4)



\* ---- table claims ----

\* C14: whenever EnsureTable has returned without error, every column of the
\* requested header is a column of the live table, whether the table was
\* created, patched or already sufficient
C14_HeaderInLive ==
    \A t \in Tasks :
        ens[t].pc = "done" =>
            /\ ens[t].header \subseteq live.columns
            /\ ens[t].header \subseteq ens[t].result.columns

\* ensure has returned on each of its paths: no delta in the cache, a
\* created table and a patched table
C14_Witness ==
    /\ \E t \in Tasks : ens[t].pc = "done" /\ ens[t].path = "patch"
                          /\ ens[t].header = Columns
    /\ \E t \in Tasks : ens[t].pc = "done" /\ ens[t].path \in {"cached", "nodelta"}
    /\ \E i \in 1..Len(ddlLog) : ddlLog[i].op = "create" /\ ddlLog[i].ok

\* C15: once DDL for some columns of the table has succeeded, no later
\* CreateTable or PatchTableSchema is issued for any of these columns, and the
\* table is created at most once
C15_DDLOnce ==
    \A i \in 1..Len(ddlLog) : \A j \in 1..Len(ddlLog) :
        (i < j /\ ddlLog[i].ok) =>
            /\ ddlLog[j].columns \cap ddlLog[i].columns = {}
            /\ ddlLog[j].op # "create"

\* two tasks wanted the same missing column; one issued the DDL, the other
\* got the lock later and returned without DDL
C15_Witness ==
    \E t1 \in Tasks : \E t2 \in Tasks \ {t1} :
        /\ ens[t1].pc = "done" /\ ens[t1].path \in {"create", "patch"}
        /\ ens[t2].pc = "done" /\ ens[t2].path = "nodelta"
        /\ ens[t1].header = ens[t2].header



InsertStep == insertCalls' = insertCalls + 1
DDLStep == Len(ddlLog') = Len(ddlLog) + 1

\* C16: on a table ensured with primary key fields, an Insert that the
\* server does not refuse succeeds and leaves exactly one row with the key of
\* the inserted object: the row count grows only if the key was new
C16_InsertIdempotent ==
    [][(InsertStep /\ lastInsert'.table.pk # {} /\ ~lastInsert'.fault) =>
          LET pk == lastInsert'.table.pk
              k == Key(lastInsert'.row, pk)
          IN /\ ~lastInsert'.err
             /\ Cardinality(WithKey(rows', pk, k)) = 1
             /\ Len(rows') = Len(rows) + (IF WithKey(rows, pk, k) = {} THEN 1 ELSE 0)
             /\ \A i \in 1..Len(rows) : Key(rows[i], pk) # k => rows'[i] = rows[i]
      ]_vars

\* the object was inserted again with a key already in the table, which
\* still has one row
C16_Witness ==
    /\ lastInsert.table.pk # {} /\ ~lastInsert.err
    /\ lastInsert.before = 1 /\ Len(rows) = 1
    /\ insertCalls = MaxInserts

\* C17: an ensure by a TableHelper without primary key fields drops the
\* primary key of the table and keeps its rows; with the table it returns,
\* every Insert the server does not refuse adds a row, also for a key that
\* is already present
C17_PkRemoval ==
    [][/\ (DDLStep /\ pkFields = {} /\ ddlLog'[Len(ddlLog')].ok) =>
             (live'.pk = {} /\ rows' = rows)
       /\ \A t \in Tasks : (pkFields' = {} /\ ens'[t].pc = "done") => live'.pk = {}
       /\ (InsertStep /\ lastInsert'.table.pk = {} /\ ~lastInsert'.fault) =>
             (~lastInsert'.err /\ rows' = Append(rows, lastInsert'.row))
      ]_vars

\* the key was dropped from a table with one row, and inserts of the same
\* key value after that have each added a row
C17_Witness ==
    /\ pkFields = {} /\ live.pk = {}
    /\ \E i \in 1..Len(ddlLog) : ddlLog[i].deletePk /\ ddlLog[i].ok
    /\ Len(rows) = MaxInserts
    /\ \A i \in 1..Len(rows) : rows[i]["email"] = rows[1]["email"]
    /\ lastInsert.table.pk = {} /\ ~lastInsert.err



\* ---- bulk claims ----

\* the server refused nothing in the last bulk call
NoRefusal(l) ==
    /\ l.res.opened
    /\ l.failAt = 0 \/ l.failAt > Len(l.res.steps) + 1

\* C18: a BulkInsert into an empty table that the server does not refuse
\* succeeds and leaves as many rows as objects without primary key, and as
\* many as distinct key values with one
C18_BulkInsertCount ==
    (/\ lastBulk.adapter = "Mysql" /\ lastBulk.op = "BulkInsert"
     /\ lastBulk.before = << >> /\ NoRefusal(lastBulk)) =>
        /\ ~lastBulk.res.err
        /\ Len(bulkRows) = IF bulkTable.pk THEN Cardinality(KeysOf(lastBulk.objects))
                           ELSE Len(lastBulk.objects)

\* objects with a repeated key value were merged into a primary key table
C18_Witness ==
    /\ lastBulk.adapter = "Mysql" /\ lastBulk.op = "BulkInsert" /\ bulkTable.pk
    /\ lastBulk.before = << >> /\ NoRefusal(lastBulk) /\ ~lastBulk.res.err
    /\ Len(lastBulk.objects) = MaxBulkRows
    /\ Len(bulkRows) = 2

\* C19: in a bulk call whose transaction was opened, a refused delete or
\* store statement means one Rollback, no commit, the error returned and
\* the table as before; when nothing is refused there is one commit, no
\* Rollback and no error
C19_AllOrNothing ==
    lastBulk.res.opened =>
        /\ lastBulk.res.executed < Len(lastBulk.res.steps) =>
              /\ lastBulk.res.rollbacks = 1 /\ lastBulk.res.commits = 0
              /\ lastBulk.res.err
              /\ bulkRows = lastBulk.before
        /\ NoRefusal(lastBulk) =>
              /\ lastBulk.res.commits = 1 /\ lastBulk.res.rollbacks = 0
              /\ ~lastBulk.res.err

\* a BulkUpdate was refused after its delete and a row had gone through
C19_Witness ==
    /\ lastBulk.op = "BulkUpdate" /\ lastBulk.cond # "none"
    /\ lastBulk.cond \in KeysOf(lastBulk.before)
    /\ lastBulk.res.executed >= 2 /\ lastBulk.res.executed < Len(lastBulk.res.steps)
    /\ lastBulk.res.steps[lastBulk.res.executed].kind \in {"insert", "merge"}
    /\ lastBulk.res.rollbacks = 1 /\ bulkRows = lastBulk.before

\* the insert statements the last bulk call has executed
InsertStatements(l) ==
    SelectSeq(SubSeq(l.res.steps, 1, l.res.executed), LAMBDA st : st.kind = "insert")

RECURSIVE RowsBound(_)
RowsBound(stmts) == IF stmts = << >> THEN << >> ELSE Head(stmts).rows \o RowsBound(Tail(stmts))

\* C20: the insert statements executed by a bulk call on a table without
\* primary key each bind at most 65535 values and number their placeholders
\* from 1; they bind the objects in the order given, each once, and all of
\* them when the server refuses nothing
C20_Batches ==
    (/\ lastBulk.adapter = "Mysql" /\ lastBulk.res.opened /\ ~bulkTable.pk) =>
        LET stmts == InsertStatements(lastBulk)
            bound == RowsBound(stmts)
        IN /\ \A i \in 1..Len(stmts) :
                /\ stmts[i].values <= 65535
                /\ stmts[i].values = Len(stmts[i].rows) * bulkTable.width
                /\ stmts[i].first = 1
                /\ stmts[i].last = stmts[i].values
           /\ bound = [i \in 1..Len(bound) |-> i]
           /\ NoRefusal(lastBulk) => Len(bound) = Len(lastBulk.objects)

\* the objects did not fit one statement: a statement of two rows was
\* followed by another
C20_Witness ==
    /\ lastBulk.adapter = "Mysql" /\ lastBulk.res.opened /\ ~bulkTable.pk
    /\ NoRefusal(lastBulk)
    /\ Len(InsertStatements(lastBulk)) = 2
    /\ Len(InsertStatements(lastBulk)[1].rows) = 2


\* ---- batch goroutine claims ----

\* C21: in a tick of the batch goroutine a file key leaves the bucket only in
\* the iteration whose Copy loaded it; a file key whose Copy failed stays in
\* the bucket; a tick whose ListBucket succeeds lists every file key of the
\* bucket, so one left behind is listed again; and at the end of a tick Copy
\* was called for every listed file key of the expected format, whatever
\* happened to the others
C21_DeleteAfterLoad ==
    [][ /\ \A f \in FileKeys :
            (f \in bucket /\ f \notin bucket') => copies'[f] = copies[f] + 1
        /\ \A f \in attempted' \ attempted :
            copies'[f] = copies[f] => (f \in bucket' /\ bucket' = bucket)
        /\ (bqPc = "sleep" /\ bqPc' = "files") => listed' = bucket
        /\ (bqPc = "files" /\ bqPc' = "top") =>
              attempted' = listed \cap WellFormedKeys
      ]_vars

C21_Witness ==
    /\ bqPc = "top"
    /\ ticks = 1
    /\ listed = {"f1", "f2", "x"}
    /\ attempted = {"f1", "f2"}
    /\ copies["f1"] = 0 /\ "f1" \in bucket
    /\ copies["f2"] = 1 /\ "f2" \notin bucket

\* C22 as stated: no file key is loaded into the table by more than one Copy
C22_AsStated == \A f \in FileKeys : copies[f] <= 1

\* ---- fallback replay claims ----

\* C23: a step of Replay that calls StoreWithParseFunc passes exactly the
\* tables the status manager marks uploaded for the file as already uploaded,
\* stores none of them, and loads no rows into a table marked uploaded
C23_UploadedSkipped ==
    [][ lastStore' # lastStore =>
          /\ lastStore'.call.already =
                {t \in AllTables : statuses[lastStore'.call.fileName][t] = "uploaded"}
          /\ DOMAIN lastStore'.call.results \cap lastStore'.call.already = {}
          /\ \A t \in lastStore'.call.already : loads'[t] = loads[t]
      ]_vars

\* a second Replay after a partial failure stored only the table that failed
C23_Witness ==
    /\ replayCount = 2
    /\ lastStore.call.fileName = GoodBase
    /\ lastStore.call.already = {"t1"}
    /\ DOMAIN lastStore.call.results = {"t2"}
    /\ lastStore.ret = "ok"
    /\ loads = [t \in AllTables |-> 1]

\* C24: the lock map holds exactly the file name of the Replay in progress,
\* so it is empty again after every return of Replay; a Replay that returns
\* 'being processed' found the name in the map and leaves the files, the
\* statuses, the loaded rows, the cache, the fallback and the lock as they are
C24_PerFileLock ==
    [][ /\ locks' = (IF rp' = NoReplay THEN {} ELSE {rp'.fileName})
        /\ (lastReplay' = "being processed" /\ lastReplay # "being processed") =>
              /\ locks # {}
              /\ UNCHANGED << locks, rp, fsFiles, statuses, loads, fileCache, fallbackCh,
                              lastStore >>
      ]_vars

\* a first Replay of the file returned table errors, a second one took the
\* lock again, and a concurrent third one was turned away
C24_Witness ==
    /\ replayCount = 2
    /\ lastStore.ret = "table errors"
    /\ rp # NoReplay
    /\ rp.fileName = lastStore.call.fileName
    /\ locks = {rp.fileName}
    /\ lastReplay = "being processed"

\* C25: after a StoreWithParseFunc of Replay that returned no error, the
\* archiver was called if and only if no table of the result has an error;
\* with a failed table the file is still on disk, the status manager has
\* "uploaded" for every successful and "failed" for every failed table of the
\* result, and the returned error holds the error of every failed table
C25_ArchiveOnlyClean ==
    (lastStore # NoStore /\ lastStore.call.err = NoErr) =>
        LET res == lastStore.call.results
            file == lastStore.call.fileName
            failedTables == {t \in DOMAIN res : res[t] # NoErr}
        IN /\ (lastStore.archive # "none") <=> (failedTables = {})
           /\ failedTables # {} =>
                /\ Join(FallbackDir, file) \in fsFiles
                /\ \A t \in DOMAIN res :
                     statuses[file][t] = (IF res[t] = NoErr THEN "uploaded" ELSE "failed")
                /\ lastStore.multiErr = { <<t, res[t]>> : t \in failedTables }
                /\ lastStore.ret = "table errors"

C25_Witness ==
    /\ lastStore.ret = "table errors"
    /\ DOMAIN lastStore.call.results = {"t1", "t2"}
    /\ lastStore.call.results["t1"] = NoErr
    /\ lastStore.call.results["t2"] = StoreErr
    /\ statuses[GoodBase] = [t \in AllTables |-> IF t = "t1" THEN "uploaded" ELSE "failed"]
    /\ Join(FallbackDir, GoodBase) \in fsFiles

\* C26: Replay goes on to StoreWithParseFunc only with a non-empty file name,
\* a file that can be read, a destination id that is given or found in the
\* file name, and a destination that is known and has a storage; a Replay
\* that returns one of the five errors leaves the files, the statuses, the
\* loaded rows, the cache and the fallback as they are
Rejections ==
    {"file name empty", "read error", "malformed name", "destination not found",
     "not initialized"}

Storable(call) ==
    /\ call.fileName # << >>
    /\ call.filePath \in fsFiles
    /\ call.destinationID = << >> => FindDestinationID(call.fileName).found
    /\ LET d == IF call.destinationID = << >> THEN FindDestinationID(call.fileName).id
                ELSE call.destinationID
       IN d \in KnownDestinations /\ d \in InitializedDestinations

C26_RejectNoEffect ==
    [][ /\ (rp # NoReplay /\ rp' = NoReplay) =>
              /\ Storable(rp) <=> lastReplay' \notin Rejections
              /\ lastReplay' \in {"ok", "table errors", "store error"} => Storable(rp)
        /\ (replayCount' # replayCount /\ rp' = NoReplay) =>
              lastReplay' \in {"file name empty", "being processed"}
        /\ (lastReplay' \in Rejections /\ (replayCount' # replayCount \/ rp' # rp)) =>
              UNCHANGED << fsFiles, statuses, loads, fileCache, fallbackCh, lastStore >>
      ]_vars

C26_Witness ==
    /\ ~staged
    /\ replayCount = 2
    /\ rp = NoReplay
    /\ lastReplay = "not initialized"
    /\ lastStore.ret = "table errors"
    /\ statuses[GoodBase] = [t \in AllTables |-> IF t = "t1" THEN "uploaded" ELSE "failed"]

\* ---- async logger claims ----

\* the numbers of the events behind the lines of the writer, of the events
\* given up, and of the event the goroutine holds
WrittenIds == { consumed[i].id : i \in {k \in 1..Len(consumed) :
                   \E n \in 1..Len(writerOut) : writerOut[n] = LogLine(consumed[k])} }
DroppedIds == { d.id : d \in dropped }
InHand == IF alPc = "write" THEN << alEvent >> ELSE << >>

\* every event sent is, in the order of the sends, first handled (written or
\* given up), then in the hand of the goroutine, then on the channel
Conserved ==
    LET h == Cardinality(WrittenIds \cup DroppedIds)
    IN /\ WrittenIds \cup DroppedIds = 1..h
       /\ WrittenIds \cap DroppedIds = {}
       /\ SubSeq(consumed, h + 1, Len(consumed)) = InHand \o logCh

\* the lines of the writer are the JSON lines of the events written, one
\* each, in the order of the sends
InOrder ==
    /\ Len(writerOut) = Cardinality(WrittenIds)
    /\ \A n \in 1..Len(writerOut) : \E k \in 1..Len(consumed) :
         /\ writerOut[n] = LogLine(consumed[k])
         /\ Cardinality({i \in WrittenIds : i <= consumed[k].id}) = n

\* C27 as stated: while the logger is open no event is given up
C27_AsStated == ~alClosed => dropped = {}

\* C27: the channel never holds more than its capacity and a send happens
\* only when there is room; every event sent is written, given up, in the
\* hand of the goroutine or on the channel, in the order of the sends; the
\* writer holds one JSON line per written event in that order; and an event
\* is given up only because json.Marshal refused it or writer.Write failed
C27_Backpressure ==
    [][ /\ Len(logCh') <= LogChCap
        /\ consumed' # consumed => Len(logCh) < LogChCap
        /\ Conserved'
        /\ InOrder'
        /\ \A d \in dropped' :
             /\ d.cause = "marshal" <=> ~consumed'[d.id].ok
             /\ d.cause \in {"marshal", "write"}
      ]_vars

\* three events went through the channel: the second was given up on a write
\* error, the others were written in order, while the logger was open
C27_Witness ==
    /\ ~alClosed
    /\ Len(consumed) = MaxLogEvents
    /\ dropped = {[id |-> 2, cause |-> "write"]}
    /\ writerOut = << LogLine(consumed[1]), LogLine(consumed[3]) >>

\* C28 as stated: when the writer is closed, no event sent before Close is
\* left unwritten
C28_AsStated == writerClosed => pendingAtClose = << >>

\* ---- storage claims ----

\* C29 as stated: no pass of the streaming worker calls Insert of the storage
\* after the adapter of the storage was closed
C29_AsStated ==
    [][ ~( /\ adapterClosed
           /\ pc = "dequeue" /\ pc' = "top"
           /\ NumCalls(last'.calls, "Insert") > 0 ) ]_vars

\* C30: Postgres.Insert calls the adapter insert at most twice; not at all
\* when the first EnsureTable fails; once when the first insert succeeds, or
\* when it fails and RefreshTableSchema or the second EnsureTable fails, whose
\* error is then returned; and twice otherwise, returning the result of the
\* second insert
C30_OneRetry ==
    pgInsert # NoPgInsert =>
        LET run == pgInsert.run
            res == pgInsert.res
        IN /\ res.calls \in 0..2
           /\ run[1] # OK => (res.calls = 0 /\ res.err = run[1])
           /\ (run[1] = OK /\ run[2] = OK) => (res.calls = 1 /\ res.err = NoErr)
           /\ (run[1] = OK /\ run[2] # OK) =>
                IF run[3] # OK THEN res.calls = 1 /\ res.err = run[3]
                ELSE IF run[4] # OK THEN res.calls = 1 /\ res.err = run[4]
                ELSE /\ res.calls = 2
                     /\ res.err = (IF run[5] = OK THEN NoErr ELSE run[5])
           /\ res.stored <=> res.err = NoErr

\* the first insert failed, the refresh and the second ensure went through,
\* and the second insert stored the row
C30_Witness ==
    /\ Len(pgInsert.run) = 5
    /\ pgInsert.run[2] # OK
    /\ pgInsert.run[5] = OK
    /\ pgInsert.res.calls = 2
    /\ pgInsert.res.err = NoErr

\* ---- factory claims ----

StoreStep ==
    /\ rp # NoReplay
    /\ rp' = NoReplay
    /\ lastReplay' \in {"ok", "table errors", "store error"}

\* the entries of the fallback log that come from failed rows of a file
FileRowEntries(ch) == {i \in 1..Len(ch) : ch[i].event.shape = "filerow"}

C33_AsStated ==
    (lastStage.called /\ lastStage.res.err # "none") => bucket = lastStage.before

\* ---- named lock and version claims ----

\* C34 as stated: a Lock or TryLock attempt misses only while another task
\* holds the lock of the same (system, collection) pair
C34_AsStated ==
    [][ \A t \in Tasks :
          (task[t].pc = "attempt" /\ task'[t].pc \in {"sleep", "failed"}) =>
              Holders(task[t].system, task[t].collection) # {}
      ]_vars

\* C35 as stated: after the holder calls Unlock() on the lock it was given,
\* IsLocked of the pair is false
C35_AsStated ==
    [][ \A t \in Tasks :
          (task[t].pc = "held" /\ task'[t].pc = "idle") =>
              IdOf(t) \notin imsLocks'
      ]_vars

\* C36 as stated: the version of every (system, collection) pair is the
\* number of IncrementVersion calls completed for that pair, 0 before the first
C36_AsStated ==
    \A sy \in Systems : \A co \in Collections :
        VersionOf(sy, co) = incs[<<sy, co>>]

\* ---- shutdown claims ----

\* C37 as stated: once BigQuery.Close has closed the adapters the batch loop
\* leaves its sleep for no ListBucket and calls no Copy
C37_AsStated ==
    [][ bqAdapterClosed =>
          /\ ~(bqPc = "sleep" /\ bqPc' # "sleep")
          /\ ~copyOnClosed'
      ]_vars

\* C38 as stated: after AsyncLogger.Close the goroutine of the logger calls
\* Write on the closed writer for no event
C38_AsStated ==
    [][ ~( /\ writerClosed
           /\ alPc = "write" /\ alEvent.ok
           /\ alPc' = "top" ) ]_vars

\* ---- archive retry claims ----

\* C39 as stated: a Replay of a file whose tables are all marked uploaded,
\* the archive of the Replay before having failed, stores no table, loads no
\* rows, does nothing but try the archive again, and removes the statuses of
\* the file only when that archive succeeds
C39_AsStated ==
    [][ ( /\ StoreStep
          /\ lastStore'.call.err = NoErr
          /\ FileTables(rp.fileName) # {}
          /\ \A t \in FileTables(rp.fileName) : statuses[rp.fileName][t] = "uploaded" ) =>
            /\ DOMAIN lastStore'.call.results = {}
            /\ loads' = loads
            /\ lastStore'.archive # "none"
            /\ statuses'[rp.fileName] # statuses[rp.fileName] => lastStore'.archive = "ok"
            /\ fallbackCh' = fallbackCh
      ]_vars

\* ---- bulk transaction claims ----

\* C40 as stated: a BulkInsert or BulkUpdate of the MySQL or the ClickHouse
\* adapter whose OpenTx fails returns the error, executes no statement,
\* commits and rolls back nothing and leaves the rows as they were
C40_AsStated ==
    (lastBulk # NoBulk /\ lastBulk.openFails) =>
        /\ lastBulk.res.err /\ ~lastBulk.res.panic
        /\ lastBulk.res.executed = 0
        /\ lastBulk.res.commits = 0 /\ lastBulk.res.rollbacks = 0
        /\ bulkRows = lastBulk.before

====
